---- MODULE Spec2Model ----
(***************************************************************************)
(* Stock-consistency subsystem of the distributor backend                  *)
(* (src/server.js, revision starting at line 1229): the movement recorder  *)
(* registrarMovimiento, the drift monitor ejecutarLogicaMonitor, the order *)
(* handlers guardar-pedidos / actualizar-pedido / eliminar-pedido /        *)
(* actualizar-estado-pedido and the per-customer queue runInQueue.         *)
(*                                                                         *)
(* Every `await` on the datastore is one atomic step of the handler that   *)
(* issues it; the synchronous code between two awaits belongs to the step  *)
(* that precedes it.  A datastore call ends in one of three outcomes:      *)
(* "ok", "error" (the client library returns {error}) or "throw" (the      *)
(* promise rejects).  Money is counted in halves of a currency unit so     *)
(* that Math.round has something to round.                                 *)
(***************************************************************************)
EXTENDS Integers, Sequences, FiniteSets, TLC

VARIABLES
    productos,         \* table productos: product id -> stock
    monitor_snapshot,  \* table monitor_snapshot: product id -> stock (rows may be missing)
    historial_stock,   \* table historial_stock: the movement records, oldest first
    pedidos,           \* table pedidos: order id -> row (rows may be missing)
    clients_v2,        \* table clients_v2: customer id -> debt ledger document
    userQueues,        \* runInQueue's map: customer id -> last promise of the chain
    tareas,            \* the promises created by runInQueue, with their task
    req,               \* the HTTP requests in flight, one record per handler run
    mon,               \* the runs of ejecutarLogicaMonitor in flight
    now,               \* Date.now()
    cuenta,            \* history: the requests and the passes started so far
    stock0,            \* history: the stock of each product in the initial state
    sinCambios         \* history: a pass has returned and no stock was written since

vars == <<productos, monitor_snapshot, historial_stock, pedidos, clients_v2,
          userQueues, tareas, req, mon, now, cuenta, stock0, sinCambios>>

---------------------------------------------------------------------------
\* Bounds of the model.
NumProds == 2
MaxStock == 2
MaxQty   == 2
MaxClock == 2
MaxReq   == 2
MaxPases == 2
NumReqs  == 2
NumMons  == 2
NumUsers == 2
MaxReqDeuda == 3

\* Program constants, scaled: the page size and the upsert batch size are
\* 1000 in the source; the model pages and batches by 2 rows.
limit     == 2
batchSize == 2
\* referencia_id 'MONITOR'; order ids are the positive clock values.
MONITOR   == 0

Prods   == 1..NumProds
ProdIds == 0..NumProds          \* 0 names no row of productos
Reqs    == 1..NumReqs
Mons    == 1..NumMons
Users   == 1..NumUsers
PedidoIds == 1..MaxClock
Outcomes == {"ok", "error", "throw"}

Min(a, b) == IF a < b THEN a ELSE b

\* productos.precio, in halves of a unit (1.5 and 2.5 for products 1 and 2).
precioDB == [p \in Prods |-> 2 * p + 1]

RECURSIVE SumSeq(_)
SumSeq(s) == IF s = <<>> THEN 0 ELSE Head(s) + SumSeq(Tail(s))

\* The rows of a table in key order.
RECURSIVE Filas(_)
Filas(S) ==
    IF S = {} THEN <<>>
    ELSE LET k == CHOOSE x \in S : \A y \in S : x <= y
         IN <<k>> \o Filas(S \ {k})

---------------------------------------------------------------------------
\* Records.

NoMov == [producto_id |-> 0, cantidad_cambio |-> 0, stock_anterior |-> 0,
          stock_nuevo |-> 0, tipo_movimiento |-> "", referencia_id |-> 0,
          revisado |-> FALSE]

Movimiento(prodId, cambio, stockAnt, stockNue, tipo, ref) ==
    [producto_id |-> prodId, cantidad_cambio |-> cambio, stock_anterior |-> stockAnt,
     stock_nuevo |-> stockNue, tipo_movimiento |-> tipo, referencia_id |-> ref,
     revisado |-> FALSE]

IdleReq == [op |-> "idle", pc |-> "idle", id |-> 0, lista |-> <<>>, items |-> <<>>,
            user_id |-> 0, recibido |-> FALSE, estado |-> "", idx |-> 0,
            mov |-> NoMov, updErr |-> FALSE, regErr |-> FALSE, total |-> 0, res |-> 0,
            h0 |-> 0, nombrado |-> 0, errSync |-> FALSE]

\* nombrado is the product id written in the text of a 400 answer of
\* guardar-pedidos; errSync tells whether the customer lookup of the ledger
\* synchronisation of actualizar-pedido has failed.
\* A handler run begins; h0 remembers how many movement records there were.
\* regErr tells whether a datastore call of the recorder call under way has
\* failed.
NuevaReq(op) == [IdleReq EXCEPT !.op = op, !.h0 = Len(historial_stock)]

\* h0 and foto0 remember the movement count and the snapshot table a pass
\* found when it began.
IdleMon == [pc |-> "idle", from |-> 0, productosReales |-> <<>>, snapshotData |-> <<>>,
            i |-> 0, cambiosDetectados |-> 0, snapshotUpdates |-> <<>>, b |-> 0,
            ret |-> 0, h0 |-> 0, foto0 |-> <<>>, fallo |-> FALSE]

\* fallo tells whether a datastore call of the pass has returned an error or
\* rejected.
Anotar(o, q) == [q EXCEPT !.fallo = (@ \/ o # "ok")]

\* A handler answers: res.status(...).json(...).
Responder(q, status) == [q EXCEPT !.pc = "done", !.res = status]

\* One request slot at a time is handed out, lowest free slot first.
Libre(r) == req[r].op = "idle" /\ \A s \in Reqs : s < r => req[s].op # "idle"
MonLibre(m) == mon[m].pc = "idle" /\ \A s \in Mons : s < m => mon[s].pc # "idle"
Quieto == (\A r \in Reqs : req[r].op = "idle") /\ (\A m \in Mons : mon[m].pc = "idle")

---------------------------------------------------------------------------
\* registrarMovimiento (server.js 1291-1315), called by the three handlers.

deuda == <<clients_v2, userQueues, tareas>>

\* supabase.from('productos').update({ stock }).eq('id', p)
EscribirStock(p, v) ==
    /\ productos' = [productos EXCEPT ![p] = v]
    /\ sinCambios' = FALSE

\* The statement a handler runs next when its loop body ends: the next element
\* of the list, or the first await after the loop.
DespuesDelBucle(op) ==
    CASE op = "guardar"    -> "insertPedido"
      [] op = "actualizar" -> "updPedido"
      [] op = "eliminar"   -> "delPedido"

Continuar(q) ==
    IF q.idx < Len(q.lista)
    THEN [q EXCEPT !.pc = "select", !.idx = @ + 1]
    ELSE [q EXCEPT !.pc = DespuesDelBucle(q.op)]

\* A recorder whose failure reaches the caller, which answers 500.
RecorderPropaga(q, err) ==
    IF err THEN Responder([q EXCEPT !.regErr = TRUE], 500) ELSE Continuar(q)

\* registrarMovimiento returns, normally or through its catch, and the caller
\* goes on with its loop.
TrasRecorder(q, err) == Continuar([q EXCEPT !.regErr = (@ \/ err)])

\* await supabase.from('historial_stock').insert([...]): the result is not
\* looked at, so a returned error only loses the record; a rejection is caught
\* and skips the snapshot upsert.
RegistrarInsert(r, o) ==
    LET q == req[r] IN
    /\ q.pc = "regInsert"
    /\ historial_stock' = IF o = "ok" THEN Append(historial_stock, q.mov)
                          ELSE historial_stock
    /\ req' = [req EXCEPT ![r] =
          IF o = "throw" THEN TrasRecorder(q, TRUE)
          ELSE [q EXCEPT !.pc = "regUpsert", !.regErr = (o # "ok")]]
    /\ UNCHANGED <<productos, monitor_snapshot, pedidos, deuda, mon, now, cuenta, stock0,
                   sinCambios>>

\* An upsert that leaves the table as it was.
SnapshotSinTocar(snap, prodId, stockNue) == snap

\* await supabase.from('monitor_snapshot').upsert({ id: prodId, stock: stockNue })
SnapshotTrasUpsert(snap, prodId, stockNue) ==
    [p \in DOMAIN snap \cup {prodId} |-> IF p = prodId THEN stockNue ELSE snap[p]]

RegistrarUpsert(r, o) ==
    LET q == req[r] IN
    /\ q.pc = "regUpsert"
    /\ monitor_snapshot' =
          IF o = "ok"
          THEN SnapshotTrasUpsert(monitor_snapshot, q.mov.producto_id, q.mov.stock_nuevo)
          ELSE monitor_snapshot
    /\ req' = [req EXCEPT ![r] = TrasRecorder(q, o # "ok")]
    /\ UNCHANGED <<productos, historial_stock, pedidos, deuda, mon, now, cuenta, stock0,
                   sinCambios>>

---------------------------------------------------------------------------
\* POST /api/guardar-pedidos (server.js 1658-1752).

\* A request field that holds a text Number() turns into NaN.
NoNumerico == -1

\* Number(x) || 0
Numero(x) == IF x = NoNumerico THEN 0 ELSE x

\* A resolution that looks at precio_unitario before precio.
PrecioAlReves(it, precioProd) ==
    Numero(IF it.precio_unitario # <<>> THEN it.precio_unitario[1]
           ELSE IF it.precio # <<>> THEN it.precio[1]
           ELSE precioProd)

\* Number(it.precio ?? it.precio_unitario ?? prod.precio) || 0; an absent or
\* null field is the empty sequence.
PrecioUnitario(it, precioProd) ==
    Numero(IF it.precio # <<>> THEN it.precio[1]
           ELSE IF it.precio_unitario # <<>> THEN it.precio_unitario[1]
           ELSE precioProd)

\* A subtotal that forgets the quantity.
SubtotalSinCantidad(cantidadFinal, precioUnitario) == precioUnitario

\* const subtotal = cantidadFinal * precioUnitario
Subtotal(cantidadFinal, precioUnitario) == cantidadFinal * precioUnitario

\* The sale of the earliest revisions, which never let the stock go below zero.
NewStockVentaConTope(stockAnterior, cantidadFinal) ==
    IF stockAnterior - cantidadFinal < 0 THEN 0 ELSE stockAnterior - cantidadFinal

\* const newStock = stockAnterior - cantidadFinal
NewStockVenta(stockAnterior, cantidadFinal) == stockAnterior - cantidadFinal

GuardarInicio(r, pedidoItems, userId) ==
    /\ Libre(r)
    /\ req' = [req EXCEPT ![r] =
          IF pedidoItems = <<>>
          THEN Responder(NuevaReq("guardar"), 400)
          ELSE [NuevaReq("guardar") EXCEPT !.pc = "select", !.id = now,
                               !.lista = pedidoItems, !.user_id = userId, !.idx = 1]]
    /\ UNCHANGED <<productos, monitor_snapshot, historial_stock, pedidos, deuda, mon,
                   now, stock0, sinCambios>>
    /\ cuenta' = [cuenta EXCEPT !.req = @ + 1]

\* The lenient sale of the earliest revisions, which passes over the item.
ItemOmitido(q, it) == Continuar(q)

\* return res.status(400).json({ error: `... producto ${prodId} ...` })
ItemInvalido(q, it) == Responder([q EXCEPT !.nombrado = it.id], 400)

GuardarSelect(r, o) ==
    LET q  == req[r]
        it == q.lista[q.idx]
    IN
    /\ q.op = "guardar" /\ q.pc = "select"
    /\ req' = [req EXCEPT ![r] =
          IF o = "throw" THEN Responder(q, 500)
          ELSE IF o = "error" \/ it.id \notin Prods THEN ItemInvalido(q, it)
          ELSE IF it.cantidad <= 0 THEN ItemInvalido(q, it)
          ELSE LET stockAnterior  == productos[it.id]
                   precioUnitario == PrecioUnitario(it, precioDB[it.id])
                   subtotal       == Subtotal(it.cantidad, precioUnitario)
                   newStock       == NewStockVenta(stockAnterior, it.cantidad)
               IN [q EXCEPT
                     !.pc = "update",
                     !.total = @ + subtotal,
                     !.items = Append(@, [id |-> it.id, cantidad |-> it.cantidad,
                                          precio_unitario |-> precioUnitario,
                                          subtotal |-> subtotal]),
                     !.mov = Movimiento(it.id, -it.cantidad, stockAnterior, newStock,
                                        "VENTA", q.id)]]
    /\ UNCHANGED <<productos, monitor_snapshot, historial_stock, pedidos, deuda, mon,
                   now, cuenta, stock0, sinCambios>>

\* What guardar-pedidos does with the result of the stock update.
GuardarTrasUpdate(q, updErr) ==
    IF updErr THEN Responder([q EXCEPT !.updErr = TRUE], 500)
    ELSE [q EXCEPT !.updErr = FALSE, !.pc = "regInsert"]

GuardarUpdate(r, o) ==
    LET q == req[r] IN
    /\ q.op = "guardar" /\ q.pc = "update"
    /\ IF o = "ok" THEN EscribirStock(q.mov.producto_id, q.mov.stock_nuevo)
       ELSE UNCHANGED <<productos, sinCambios>>
    /\ req' = [req EXCEPT ![r] = IF o = "throw" THEN Responder(q, 500)
                                 ELSE GuardarTrasUpdate(q, o = "error")]
    /\ UNCHANGED <<monitor_snapshot, historial_stock, pedidos, deuda, mon, now, cuenta, stock0>>

\* The row stored by insert([payload]); an id that is already a row of the
\* table is refused by the datastore (primary key).
FilaPedido(q) ==
    [items |-> q.items, total |-> q.total, user_id |-> q.user_id, estado |-> "",
     fecha |-> "reciente"]

GuardarInsert(r, o) ==
    LET q == req[r]
        ok == o = "ok" /\ q.id \notin DOMAIN pedidos
    IN
    /\ q.op = "guardar" /\ q.pc = "insertPedido"
    /\ pedidos' = IF ok
                  THEN [k \in DOMAIN pedidos \cup {q.id} |->
                           IF k = q.id THEN FilaPedido(q) ELSE pedidos[k]]
                  ELSE pedidos
    /\ req' = [req EXCEPT ![r] = Responder(q, IF ok THEN 200 ELSE 500)]
    /\ UNCHANGED <<productos, monitor_snapshot, historial_stock, deuda, mon, now,
                   cuenta, stock0, sinCambios>>

\* The response has been sent; the handler run is over.
Fin(r) ==
    /\ req[r].pc = "done"
    /\ req' = [req EXCEPT ![r] = IdleReq]
    /\ UNCHANGED <<productos, monitor_snapshot, historial_stock, pedidos, deuda, mon,
                   now, cuenta, stock0, sinCambios>>

\* Date.now() advances.
Tick ==
    /\ now < MaxClock
    /\ now' = now + 1
    /\ UNCHANGED <<productos, monitor_snapshot, historial_stock, pedidos, deuda, req,
                   mon, cuenta, stock0, sinCambios>>

---------------------------------------------------------------------------
\* The per-customer queue (server.js 2208-2217) and the debt-ledger tasks.

\* Math.round of an amount counted in halves, giving whole units.
Redondear(t) == (t + 1) \div 2

\* One chain for all the customers: a task is chained to the newest promise.
ColaUnica(userId) == Len(tareas)

\* A queue that chains nothing: every task starts from a resolved promise.
SinAnterior(userId) == 0

\* The promise a new task is chained to: userQueues[userId], or an already
\* resolved promise (0) when the customer has none yet.
Anterior(userId) == userQueues[userId]

\* runInQueue(userId, task): nextTask = userQueues[userId].then(() => task())
\* .catch(...) becomes the customer's promise.
RunInQueue(userId, tarea) ==
    /\ tareas' = Append(tareas, [tarea EXCEPT !.user_id = userId,
                                              !.prev = Anterior(userId),
                                              !.st = "pending"])
    /\ userQueues' = [userQueues EXCEPT ![userId] = Len(tareas) + 1]

NoDoc == [items |-> <<>>, history |-> <<>>]

\* creo tells whether the task has stored a new debt line (CASO A), quito how
\* many items of the row its write has left out.
Tarea(tipo, pedidoId, total, fecha) ==
    [tipo |-> tipo, user_id |-> 0, prev |-> 0, st |-> "pending", pedido_id |-> pedidoId,
     total |-> total, fecha |-> fecha, doc |-> NoDoc, fallo |-> FALSE, creo |-> FALSE,
     quito |-> 0]

\* A callback that does not wait for the promise it is chained to.
SinEsperar(prev) == TRUE

\* A then-callback runs once the promise it is chained to has settled.
Asentada(prev) == IF prev = 0 THEN TRUE ELSE tareas[prev].st = "settled"

\* items.findIndex(pred): the first position that satisfies pred, 0 for -1.
Primero(S) == IF S = {} THEN 0 ELSE CHOOSE k \in S : \A j \in S : k <= j

\* items.findIndex(i => i.id === String(pedido.id))
FindIndexEstado(items, pedidoId) ==
    Primero({k \in DOMAIN items : items[k].id = pedidoId})

\* deudaItems.findIndex(i => i.id === String(pedidoId) && i.type === 'debt')
FindIndexEdit(items, pedidoId) ==
    Primero({k \in DOMAIN items : items[k].id = pedidoId /\ items[k].type = "debt"})

\* A filter that keeps only what is inside the window.
ConservarSoloRecientes(item) ==
    IF item.type # "debt" THEN TRUE
    ELSE IF item.date = "" THEN TRUE
    ELSE item.date = "reciente"

\* The filter of the clean-up zone (server.js 2264-2270).  A date is "reciente"
\* (after the limit of three months ago), "vieja" or "" (absent or invalid).
Conservar(item) ==
    IF item.type # "debt" THEN TRUE
    ELSE IF item.date = "" THEN TRUE
    ELSE item.date = "reciente" \/ (item.amount - item.paid) > 0

\* items = items.filter(...)
RECURSIVE Limpiar(_)
Limpiar(items) ==
    IF items = <<>> THEN <<>>
    ELSE (IF Conservar(Head(items)) THEN <<Head(items)>> ELSE <<>>)
         \o Limpiar(Tail(items))

\* if (history.length > 500) history.pop()
capHistory == 3
RecortarHistory(history) ==
    IF Len(history) > capHistory THEN SubSeq(history, 1, Len(history) - 1) ELSE history

\* const fecha = pedido.fecha || new Date().toISOString()
FechaDeuda(fecha) == IF fecha = "" THEN "reciente" ELSE fecha

\* The task of actualizar-estado-pedido (server.js 2245-2367) from the client
\* row it read to the document it writes back; cambios is huboCambios.
TareaEstado(t, data) ==
    LET items    == Limpiar(data.items)
        index    == FindIndexEstado(items, t.pedido_id)
        montoNuevo == Redondear(t.total)
        entrada(tipo) == [items |-> items, type |-> tipo]
    IN IF index = 0
       THEN [cambios |-> TRUE,
             doc |-> [items |-> <<[id |-> t.pedido_id, type |-> "debt",
                                   amount |-> montoNuevo, paid |-> 0,
                                   date |-> FechaDeuda(t.fecha)]>> \o items,
                      history |-> RecortarHistory(<<entrada("debt")>> \o data.history)]]
       ELSE IF items[index].amount # montoNuevo
       THEN [cambios |-> TRUE,
             doc |-> [items |-> [items EXCEPT ![index].amount = montoNuevo],
                      history |-> RecortarHistory(<<entrada("edit")>> \o data.history)]]
       ELSE [cambios |-> FALSE, doc |-> data]

\* An edit task that writes whether or not the amount differs.
TareaEditSinComparar(t, data) ==
    LET deudaItems == data.items
        index == FindIndexEdit(deudaItems, t.pedido_id)
    IN IF index # 0
       THEN [cambios |-> TRUE,
             doc |-> [items |-> [deudaItems EXCEPT ![index].amount = Redondear(t.total)],
                      history |-> RecortarHistory(
                          <<[items |-> deudaItems, type |-> "edit"]>> \o data.history)]]
       ELSE [cambios |-> FALSE, doc |-> data]

\* The task of actualizar-pedido (server.js 1578-1642).
TareaEdit(t, data) ==
    LET deudaItems == data.items
        index == FindIndexEdit(deudaItems, t.pedido_id)
        montoNuevo == Redondear(t.total)
    IN IF index # 0 /\ deudaItems[index].amount # montoNuevo
       THEN [cambios |-> TRUE,
             doc |-> [items |-> [deudaItems EXCEPT ![index].amount = montoNuevo],
                      history |-> RecortarHistory(
                          <<[items |-> deudaItems, type |-> "edit"]>> \o data.history)]]
       ELSE [cambios |-> FALSE, doc |-> data]

Settled(t) == [t EXCEPT !.st = "settled", !.doc = NoDoc]

\* A chain without the catch: the promise of a task that failed is rejected.
SinCatch(t) == [t EXCEPT !.st = "rejected", !.doc = NoDoc, !.fallo = TRUE]

\* .catch(err => console.error("Error en cola:", err)): the promise of a task
\* that failed is fulfilled all the same; fallo remembers the failure.
TrasFallo(t) == [Settled(t) EXCEPT !.fallo = TRUE]

\* The task starts and reads the customer row: select('*').eq('user_id', ...).
TareaLeer(n, o) ==
    LET t == tareas[n]
        hay == o = "ok" /\ t.user_id \in DOMAIN clients_v2
        r == IF t.tipo = "estado" THEN TareaEstado(t, clients_v2[t.user_id])
             ELSE TareaEdit(t, clients_v2[t.user_id])
    IN
    /\ t.st = "pending" /\ Asentada(t.prev)
    /\ tareas' = [tareas EXCEPT ![n] =
          IF o = "throw" THEN TrasFallo(t)
          ELSE IF hay /\ r.cambios THEN [t EXCEPT !.st = "write", !.doc = r.doc]
          ELSE Settled(t)]
    /\ UNCHANGED <<productos, monitor_snapshot, historial_stock, pedidos, clients_v2,
                   userQueues, req, mon, now, cuenta, stock0, sinCambios>>

\* The document the task is about to write holds one line more than the
\* cleaned-up items of the row: the line put in front by items.unshift.
EsCasoA(t) ==
    /\ t.tipo = "estado" /\ t.user_id \in DOMAIN clients_v2
    /\ Len(t.doc.items) = Len(Limpiar(clients_v2[t.user_id].items)) + 1

\* The task writes the document back: update({ data }).eq('id', cliente.id).
TareaEscribir(n, o) ==
    LET t == tareas[n] IN
    /\ t.st = "write"
    /\ clients_v2' = IF o = "ok" /\ t.user_id \in DOMAIN clients_v2
                     THEN [clients_v2 EXCEPT ![t.user_id] = t.doc]
                     ELSE clients_v2
    /\ tareas' = [tareas EXCEPT ![n] =
          IF o = "throw" THEN TrasFallo(t)
          ELSE IF o = "ok" /\ t.user_id \in DOMAIN clients_v2
          THEN [Settled(t) EXCEPT
                  !.creo = EsCasoA(t),
                  !.quito = Len(clients_v2[t.user_id].items) - Len(t.doc.items)
                            + (IF EsCasoA(t) THEN 1 ELSE 0)]
          ELSE Settled(t)]
    /\ UNCHANGED <<productos, monitor_snapshot, historial_stock, pedidos, userQueues,
                   req, mon, now, cuenta, stock0, sinCambios>>

---------------------------------------------------------------------------
\* PUT /api/historial-check/:id (server.js 1497-1510).  The id of a movement
\* record is its position in the table.

\* An acknowledgement that removes the row.
HistorialSinFila(h, id) ==
    IF id \in DOMAIN h THEN SubSeq(h, 1, id - 1) \o SubSeq(h, id + 1, Len(h)) ELSE h

\* update({ revisado: true }).eq('id', id)
HistorialTrasCheck(h, id) ==
    IF id \in DOMAIN h THEN [h EXCEPT ![id].revisado = TRUE] ELSE h

CheckInicio(r, id) ==
    /\ Libre(r)
    /\ req' = [req EXCEPT ![r] = [NuevaReq("check") EXCEPT !.pc = "updRevisado", !.id = id]]
    /\ UNCHANGED <<productos, monitor_snapshot, historial_stock, pedidos, deuda, mon,
                   now, stock0, sinCambios>>
    /\ cuenta' = [cuenta EXCEPT !.req = @ + 1]

CheckUpdate(r, o) ==
    LET q == req[r] IN
    /\ q.op = "check" /\ q.pc = "updRevisado"
    /\ historial_stock' = IF o = "ok" THEN HistorialTrasCheck(historial_stock, q.id)
                          ELSE historial_stock
    /\ req' = [req EXCEPT ![r] = Responder(q, IF o = "ok" THEN 200 ELSE 500)]
    /\ UNCHANGED <<productos, monitor_snapshot, pedidos, deuda, mon, now, cuenta, stock0,
                   sinCambios>>

---------------------------------------------------------------------------
\* PUT /api/actualizar-pedido/:id (server.js 1513-1655).

\* An edit that puts the amount into the stock.
NewStockModifSuma(stockAnterior, cantidadRestada) == stockAnterior + cantidadRestada

\* const newStock = stockAnterior - cantidadRestada
NewStockModif(stockAnterior, cantidadRestada) == stockAnterior - cantidadRestada

\* items.reduce((sum, item) => sum + (item.cantidad * item.precio_unitario), 0)
TotalItems(items) ==
    SumSeq([k \in DOMAIN items |-> items[k].cantidad * items[k].precio_unitario])

ActualizarInicio(r, pedidoId, items, stockUpdates) ==
    /\ Libre(r)
    /\ req' = [req EXCEPT ![r] =
          IF items = <<>>
          THEN Responder(NuevaReq("actualizar"), 400)
          ELSE [NuevaReq("actualizar") EXCEPT !.pc = "selDatos", !.id = pedidoId,
                               !.items = items, !.lista = stockUpdates]]
    /\ UNCHANGED <<productos, monitor_snapshot, historial_stock, pedidos, deuda, mon,
                   now, stock0, sinCambios>>
    /\ cuenta' = [cuenta EXCEPT !.req = @ + 1]

\* select('user, nombre_negocio, fecha'): only feeds the reason text.
ActualizarDatos(r, o) ==
    LET q == req[r] IN
    /\ q.op = "actualizar" /\ q.pc = "selDatos"
    /\ req' = [req EXCEPT ![r] =
          IF o = "throw" THEN Responder(q, 500)
          ELSE Continuar([q EXCEPT !.idx = 0])]
    /\ UNCHANGED <<productos, monitor_snapshot, historial_stock, pedidos, deuda, mon,
                   now, cuenta, stock0, sinCambios>>

ActualizarSelect(r, o) ==
    LET q == req[r]
        update == q.lista[q.idx]
    IN
    /\ q.op = "actualizar" /\ q.pc = "select"
    /\ req' = [req EXCEPT ![r] =
          IF o = "throw" THEN Responder(q, 500)
          ELSE IF o = "error" \/ update.id \notin Prods THEN Continuar(q)
          ELSE LET stockAnterior == productos[update.id]
                   newStock == NewStockModif(stockAnterior, update.cantidad)
               IN [q EXCEPT
                     !.pc = "update",
                     !.mov = Movimiento(update.id, -update.cantidad, stockAnterior,
                                        newStock, "MODIF_PEDIDO", q.id)]]
    /\ UNCHANGED <<productos, monitor_snapshot, historial_stock, pedidos, deuda, mon,
                   now, cuenta, stock0, sinCambios>>

\* A loop body that calls the recorder whatever the update returned.
SeguirSinMirarError(q, updErr) == [q EXCEPT !.updErr = updErr, !.pc = "regInsert"]

\* What actualizar-pedido and eliminar-pedido do with the result of the stock
\* update: an error is logged (or dropped) and the loop goes on.
SeguirTrasUpdate(q, updErr) ==
    IF updErr THEN Continuar([q EXCEPT !.updErr = TRUE])
    ELSE [q EXCEPT !.updErr = FALSE, !.pc = "regInsert"]

ActualizarUpdate(r, o) ==
    LET q == req[r] IN
    /\ q.op = "actualizar" /\ q.pc = "update"
    /\ IF o = "ok" THEN EscribirStock(q.mov.producto_id, q.mov.stock_nuevo)
       ELSE UNCHANGED <<productos, sinCambios>>
    /\ req' = [req EXCEPT ![r] = IF o = "throw" THEN Responder(q, 500)
                                 ELSE SeguirTrasUpdate(q, o = "error")]
    /\ UNCHANGED <<monitor_snapshot, historial_stock, pedidos, deuda, mon, now, cuenta, stock0>>

\* supabase.from('pedidos').update({ items, total }).eq('id', pedidoId)
ActualizarPedido(r, o) ==
    LET q == req[r]
        total == TotalItems(q.items)
    IN
    /\ q.op = "actualizar" /\ q.pc = "updPedido"
    /\ pedidos' = IF o = "ok" /\ q.id \in DOMAIN pedidos
                  THEN [pedidos EXCEPT ![q.id].items = q.items, ![q.id].total = total]
                  ELSE pedidos
    /\ req' = [req EXCEPT ![r] =
          IF o = "ok" THEN [q EXCEPT !.pc = "selInfo", !.total = total]
          ELSE Responder(q, 500)]
    /\ UNCHANGED <<productos, monitor_snapshot, historial_stock, deuda, mon, now,
                   cuenta, stock0, sinCambios>>

\* A synchronisation whose failed lookup fails the request.
SyncPropaga(q, o) == Responder([q EXCEPT !.errSync = (o # "ok")], IF o = "ok" THEN 200 ELSE 500)

\* catch (errSync) { console.error(...) } and then res.json({ ok: true }): the
\* answer is the same whether or not the lookup has failed.
TrasSync(q, o) == Responder([q EXCEPT !.errSync = (o # "ok")], 200)

\* select('user_id, estado, nombre_negocio') and, for a fulfilled order of a
\* customer, runInQueue; a failure of the read is swallowed.
ActualizarSync(r, o) ==
    LET q == req[r]
        hay == o = "ok" /\ q.id \in DOMAIN pedidos
        pedidoInfo == pedidos[q.id]
    IN
    /\ q.op = "actualizar" /\ q.pc = "selInfo"
    /\ IF hay /\ pedidoInfo.user_id # 0 /\ pedidoInfo.estado = "Preparado"
       THEN RunInQueue(pedidoInfo.user_id, Tarea("edit", q.id, q.total, ""))
       ELSE UNCHANGED <<userQueues, tareas>>
    /\ req' = [req EXCEPT ![r] = TrasSync(q, o)]
    /\ UNCHANGED <<productos, monitor_snapshot, historial_stock, pedidos, clients_v2,
                   mon, now, cuenta, stock0, sinCambios>>

---------------------------------------------------------------------------
\* DELETE /api/eliminar-pedido/:id (server.js 1756-1798).

\* A deletion that takes the amount out of the stock once more.
NewStockRestaurarResta(stockAnterior, cantidadRestaurar) == stockAnterior - cantidadRestaurar

\* const newStock = stockAnterior + cantidadRestaurar
NewStockRestaurar(stockAnterior, cantidadRestaurar) == stockAnterior + cantidadRestaurar

\* A deletion that restores the stock whatever the recibido flag says.
ListaSinMirarRecibido(recibido, pedido) == pedido.items

\* if (!recibido) { for (const it of pedido.items || []) ... }
ListaARestaurar(recibido, pedido) == IF recibido THEN <<>> ELSE pedido.items

EliminarInicio(r, id, recibido) ==
    /\ Libre(r)
    /\ req' = [req EXCEPT ![r] =
          [NuevaReq("eliminar") EXCEPT !.pc = "selPedido", !.id = id,
                          !.recibido = recibido]]
    /\ UNCHANGED <<productos, monitor_snapshot, historial_stock, pedidos, deuda, mon,
                   now, stock0, sinCambios>>
    /\ cuenta' = [cuenta EXCEPT !.req = @ + 1]

EliminarPedido(r, o) ==
    LET q == req[r] IN
    /\ q.op = "eliminar" /\ q.pc = "selPedido"
    /\ req' = [req EXCEPT ![r] =
          IF o = "throw" THEN Responder(q, 500)
          ELSE IF o = "error" \/ q.id \notin DOMAIN pedidos THEN Responder(q, 404)
          ELSE Continuar([q EXCEPT !.lista = ListaARestaurar(q.recibido, pedidos[q.id]),
                                   !.idx = 0])]
    /\ UNCHANGED <<productos, monitor_snapshot, historial_stock, pedidos, deuda, mon,
                   now, cuenta, stock0, sinCambios>>

EliminarSelect(r, o) ==
    LET q == req[r]
        it == q.lista[q.idx]
    IN
    /\ q.op = "eliminar" /\ q.pc = "select"
    /\ req' = [req EXCEPT ![r] =
          IF o = "throw" THEN Responder(q, 500)
          ELSE IF o = "error" \/ it.id \notin Prods THEN Continuar(q)
          ELSE LET stockAnterior == productos[it.id]
                   newStock == NewStockRestaurar(stockAnterior, it.cantidad)
               IN [q EXCEPT
                     !.pc = "update",
                     !.mov = Movimiento(it.id, it.cantidad, stockAnterior, newStock,
                                        "ELIMINAR_PEDIDO", q.id)]]
    /\ UNCHANGED <<productos, monitor_snapshot, historial_stock, pedidos, deuda, mon,
                   now, cuenta, stock0, sinCambios>>

EliminarUpdate(r, o) ==
    LET q == req[r] IN
    /\ q.op = "eliminar" /\ q.pc = "update"
    /\ IF o = "ok" THEN EscribirStock(q.mov.producto_id, q.mov.stock_nuevo)
       ELSE UNCHANGED <<productos, sinCambios>>
    /\ req' = [req EXCEPT ![r] = IF o = "throw" THEN Responder(q, 500)
                                 ELSE SeguirTrasUpdate(q, o = "error")]
    /\ UNCHANGED <<monitor_snapshot, historial_stock, pedidos, deuda, mon, now, cuenta, stock0>>

\* await supabase.from('pedidos').delete().eq('id', id): the result is dropped.
EliminarDelete(r, o) ==
    LET q == req[r] IN
    /\ q.op = "eliminar" /\ q.pc = "delPedido"
    /\ pedidos' = IF o = "ok" THEN [k \in DOMAIN pedidos \ {q.id} |-> pedidos[k]]
                  ELSE pedidos
    /\ req' = [req EXCEPT ![r] = IF o = "throw" THEN Responder(q, 500)
                                 ELSE [q EXCEPT !.pc = "delPdf"]]
    /\ UNCHANGED <<productos, monitor_snapshot, historial_stock, deuda, mon, now,
                   cuenta, stock0, sinCambios>>

\* storage.from('pedidos-pdf').remove([...]): an error is a warning.
EliminarPdf(r, o) ==
    LET q == req[r] IN
    /\ q.op = "eliminar" /\ q.pc = "delPdf"
    /\ req' = [req EXCEPT ![r] = Responder(q, IF o = "throw" THEN 500 ELSE 200)]
    /\ UNCHANGED <<productos, monitor_snapshot, historial_stock, pedidos, deuda, mon,
                   now, cuenta, stock0, sinCambios>>

---------------------------------------------------------------------------
\* PUT /api/actualizar-estado-pedido/:id (server.js 2222-2376).

EstadoInicio(r, id, estado) ==
    /\ Libre(r)
    /\ req' = [req EXCEPT ![r] =
          [NuevaReq("estado") EXCEPT !.pc = "updEstado", !.id = id,
                          !.estado = estado]]
    /\ UNCHANGED <<productos, monitor_snapshot, historial_stock, pedidos, deuda, mon,
                   now, stock0, sinCambios>>
    /\ cuenta' = [cuenta EXCEPT !.req = @ + 1]

\* A handler that enqueues for every new status.
EncolarCualquierEstado(estado, pedido) == pedido.user_id # 0

\* if (estado === 'Preparado') { if (!pedido.user_id) ... else runInQueue(...) }
DebeEncolar(estado, pedido) == estado = "Preparado" /\ pedido.user_id # 0

\* update({ estado }).eq('id', id).select().single(), then the enqueue when
\* the new status is 'Preparado' and the row carries a user_id.
EstadoUpdate(r, o) ==
    LET q == req[r]
        hay == o = "ok" /\ q.id \in DOMAIN pedidos
        pedido == [pedidos[q.id] EXCEPT !.estado = q.estado]
    IN
    /\ q.op = "estado" /\ q.pc = "updEstado"
    /\ pedidos' = IF hay THEN [pedidos EXCEPT ![q.id] = pedido] ELSE pedidos
    /\ IF hay /\ DebeEncolar(q.estado, pedido)
       THEN RunInQueue(pedido.user_id, Tarea("estado", q.id, pedido.total, pedido.fecha))
       ELSE UNCHANGED <<userQueues, tareas>>
    /\ req' = [req EXCEPT ![r] = Responder(q, IF hay THEN 200 ELSE 500)]
    /\ UNCHANGED <<productos, monitor_snapshot, historial_stock, clients_v2, mon, now,
                   cuenta, stock0, sinCambios>>

---------------------------------------------------------------------------
\* ejecutarLogicaMonitor (server.js 1318-1434).

\* A range that does not move with from: every page is the first one.
PaginaSinAvanzar(filas, from) == SubSeq(filas, 1, Min(limit, Len(filas)))

\* .range(from, from + limit - 1) over the rows of a table in key order.
Pagina(filas, from) == SubSeq(filas, from + 1, Min(from + limit, Len(filas)))

\* snapshotData.forEach(item => snapshotMap[item.id] = Number(item.stock))
SnapshotMap(data) ==
    [id \in {data[k].id : k \in DOMAIN data} |->
        data[CHOOSE k \in DOMAIN data :
                /\ data[k].id = id
                /\ \A j \in DOMAIN data : data[j].id = id => j <= k].stock]

Retornar(q, n) == [q EXCEPT !.pc = "done", !.ret = n]

\* stockFoto !== undefined && stockReal !== stockFoto
HayDiferencia(map, prod) == prod.id \in DOMAIN map /\ prod.stock # map[prod.id]

\* A snapshot update that passes over the products without a row.
SoloLosDistintos(map, prod) == prod.id \in DOMAIN map /\ prod.stock # map[prod.id]

\* A snapshot update that only seeds the missing rows.
SoloLosQueFaltan(map, prod) == prod.id \notin DOMAIN map

\* stockFoto === undefined || stockReal !== stockFoto
VaAlSnapshot(map, prod) == prod.id \notin DOMAIN map \/ prod.stock # map[prod.id]

\* The comparison loop up to its next await: the insert of a drift movement
\* for product number i, the first upsert batch, or the return.
RECURSIVE Comparar(_)
Comparar(q) ==
    IF q.i > Len(q.productosReales)
    THEN IF q.snapshotUpdates # <<>>
         THEN [q EXCEPT !.pc = "upsert", !.b = 0]
         ELSE Retornar(q, q.cambiosDetectados)
    ELSE LET prod == q.productosReales[q.i]
             map  == SnapshotMap(q.snapshotData)
         IN IF HayDiferencia(map, prod)
            THEN [q EXCEPT !.pc = "insertar"]
            ELSE Comparar([q EXCEPT
                    !.i = @ + 1,
                    !.snapshotUpdates = IF VaAlSnapshot(map, prod)
                                        THEN Append(@, prod) ELSE @])

MonInicio(m) ==
    /\ MonLibre(m)
    /\ mon' = [mon EXCEPT ![m] = [IdleMon EXCEPT !.pc = "leerProductos",
                                                 !.h0 = Len(historial_stock),
                                                 !.foto0 = monitor_snapshot]]
    /\ UNCHANGED <<productos, monitor_snapshot, historial_stock, pedidos, deuda, req,
                   now, stock0, sinCambios>>
    /\ cuenta' = [cuenta EXCEPT !.mon = Min(@ + 1, MaxPases)]

\* One page of productos.
MonLeerProductos(m, o) ==
    LET q == mon[m]
        filas == [k \in 1..NumProds |-> [id |-> k, stock |-> productos[k]]]
        data == Pagina(filas, q.from)
        leidos == q.productosReales \o data
        fin == Len(data) < limit
    IN
    /\ q.pc = "leerProductos"
    /\ mon' = [mon EXCEPT ![m] = Anotar(o,
          IF o # "ok" THEN Retornar(q, 0)
          ELSE IF ~fin THEN [q EXCEPT !.productosReales = leidos, !.from = @ + limit]
          ELSE IF leidos = <<>> THEN Retornar(q, 0)
          ELSE [q EXCEPT !.productosReales = leidos, !.from = 0,
                         !.pc = "leerSnapshot"])]
    /\ sinCambios' = (sinCambios \/ mon'[m].pc = "done")
    /\ UNCHANGED <<productos, monitor_snapshot, historial_stock, pedidos, deuda, req,
                   now, cuenta, stock0>>

\* One page of monitor_snapshot; after the last one the comparison starts.
MonLeerSnapshot(m, o) ==
    LET q == mon[m]
        ids == Filas(DOMAIN monitor_snapshot)
        filas == [k \in DOMAIN ids |-> [id |-> ids[k], stock |-> monitor_snapshot[ids[k]]]]
        data == Pagina(filas, q.from)
        leidos == q.snapshotData \o data
        fin == Len(data) < limit
    IN
    /\ q.pc = "leerSnapshot"
    /\ mon' = [mon EXCEPT ![m] = Anotar(o,
          IF o # "ok" THEN Retornar(q, 0)
          ELSE IF ~fin THEN [q EXCEPT !.snapshotData = leidos, !.from = @ + limit]
          ELSE Comparar([q EXCEPT !.snapshotData = leidos, !.i = 1]))]
    /\ sinCambios' = (sinCambios \/ mon'[m].pc = "done")
    /\ UNCHANGED <<productos, monitor_snapshot, historial_stock, pedidos, deuda, req,
                   now, cuenta, stock0>>

\* A drift movement whose difference is taken the wrong way round.
MovimientoAjusteAlReves(prod, stockFoto) ==
    Movimiento(prod.id, stockFoto - prod.stock, stockFoto, prod.stock, "ajuste db",
               MONITOR)

\* The drift movement of product number i.
MovimientoAjuste(prod, stockFoto) ==
    Movimiento(prod.id, prod.stock - stockFoto, stockFoto, prod.stock, "ajuste db",
               MONITOR)

\* await supabase.from('historial_stock').insert([...]); cambiosDetectados++
MonInsertar(m, o) ==
    LET q == mon[m]
        prod == q.productosReales[q.i]
        map == SnapshotMap(q.snapshotData)
    IN
    /\ q.pc = "insertar"
    /\ historial_stock' = IF o = "ok"
                          THEN Append(historial_stock, MovimientoAjuste(prod, map[prod.id]))
                          ELSE historial_stock
    /\ mon' = [mon EXCEPT ![m] = Anotar(o,
          IF o = "throw" THEN Retornar(q, 0)
          ELSE Comparar([q EXCEPT !.cambiosDetectados = @ + 1,
                                  !.snapshotUpdates = IF VaAlSnapshot(map, prod)
                                                      THEN Append(@, prod) ELSE @,
                                  !.i = @ + 1]))]
    /\ sinCambios' = (sinCambios \/ mon'[m].pc = "done")
    /\ UNCHANGED <<productos, monitor_snapshot, pedidos, deuda, req, now, cuenta, stock0>>

\* upsert(batch) into monitor_snapshot
RECURSIVE SnapshotTrasLote(_, _)
SnapshotTrasLote(snap, batch) ==
    IF batch = <<>> THEN snap
    ELSE SnapshotTrasLote(SnapshotTrasUpsert(snap, Head(batch).id, Head(batch).stock),
                          Tail(batch))

MonUpsert(m, o) ==
    LET q == mon[m]
        batch == SubSeq(q.snapshotUpdates, q.b + 1,
                        Min(q.b + batchSize, Len(q.snapshotUpdates)))
    IN
    /\ q.pc = "upsert"
    /\ monitor_snapshot' = IF o = "ok" THEN SnapshotTrasLote(monitor_snapshot, batch)
                           ELSE monitor_snapshot
    /\ mon' = [mon EXCEPT ![m] = Anotar(o,
          IF o = "throw" THEN Retornar(q, 0)
          ELSE IF q.b + batchSize < Len(q.snapshotUpdates)
          THEN [q EXCEPT !.b = @ + batchSize]
          ELSE Retornar(q, q.cambiosDetectados))]
    /\ sinCambios' = (sinCambios \/ mon'[m].pc = "done")
    /\ UNCHANGED <<productos, historial_stock, pedidos, deuda, req, now, cuenta, stock0>>

\* The caller has the returned count; the run is over.
MonFin(m) ==
    /\ mon[m].pc = "done"
    /\ mon' = [mon EXCEPT ![m] = IdleMon]
    /\ UNCHANGED <<productos, monitor_snapshot, historial_stock, pedidos, deuda, req,
                   now, cuenta, stock0, sinCambios>>

---------------------------------------------------------------------------
\* Inputs of the requests.

\* Sequences of at most two elements of S.
Listas(S) == {<<>>} \cup {<<x>> : x \in S} \cup {<<x, y>> : x \in S, y \in S}

\* req.body.pedido: items of a known product with a positive quantity, one of
\* them with a price override; an item with quantity 0; an item of an unknown
\* product.
SinPrecio(id, cantidad) ==
    [id |-> id, cantidad |-> cantidad, precio |-> <<>>, precio_unitario |-> <<>>]

ItemsPedido ==
    {SinPrecio(1, 1), [SinPrecio(1, MaxQty) EXCEPT !.precio = <<4>>], SinPrecio(2, MaxQty),
     SinPrecio(1, 0), SinPrecio(0, 1)}

\* req.body.stockUpdates: the quantity to take out of stock, negative to put back.
StockUpdates ==
    {[id |-> 1, cantidad |-> 1], [id |-> 2, cantidad |-> -1], [id |-> 0, cantidad |-> 1]}

\* req.body.items of actualizar-pedido.
ItemsNuevos ==
    {<<>>} \cup {<<[id |-> 1, cantidad |-> c, precio_unitario |-> 3, subtotal |-> 3 * c]>> :
                    c \in 1..MaxQty}

\* The runs are cut after MaxReq requests and MaxPases passes; the count of
\* passes stops at MaxPases.
CupoReq == cuenta.req < MaxReq
CupoMon == cuenta.mon < MaxPases

---------------------------------------------------------------------------
\* Sequential, fault-free operation of the order handlers: one request at a
\* time, every datastore call succeeds.

\* The snapshot table agrees with the stock; the row of the last product may
\* be missing.
SnapshotsDe(stock) == {[p \in S |-> stock[p]] : S \in {Prods, Prods \ {NumProds}}}

\* One order placed earlier: one unit of product 1 and two of product 2, at the
\* catalogue prices, for customer 1.
PedidosIniciales ==
    (1 :> [items |-> <<[id |-> 1, cantidad |-> 1, precio_unitario |-> 3, subtotal |-> 3],
                       [id |-> 2, cantidad |-> 2, precio_unitario |-> 5, subtotal |-> 10]>>,
           total |-> 13, user_id |-> 1, estado |-> "", fecha |-> "reciente"])

InitComun ==
    /\ historial_stock = <<>>
    /\ userQueues = [u \in Users |-> 0]
    /\ tareas = <<>>
    /\ req = [r \in Reqs |-> IdleReq]
    /\ mon = [m \in Mons |-> IdleMon]
    /\ now = 1
    /\ cuenta = [req |-> 0, mon |-> 0]
    /\ stock0 = productos
    /\ sinCambios = FALSE

InitSeq ==
    /\ productos \in [Prods -> (MaxStock - 1)..MaxStock]
    /\ monitor_snapshot \in SnapshotsDe(productos)
    /\ pedidos = PedidosIniciales
    /\ clients_v2 = [u \in Users |-> NoDoc]
    /\ InitComun

NextSeq ==
    \/ /\ Quieto /\ CupoReq
       /\ \/ \E l \in Listas(ItemsPedido) : GuardarInicio(1, l, 0)
          \/ \E id \in PedidoIds, it \in ItemsNuevos, l \in Listas(StockUpdates) :
                ActualizarInicio(1, id, it, l)
          \/ \E id \in PedidoIds, recibido \in BOOLEAN : EliminarInicio(1, id, recibido)
    \/ Quieto /\ Tick
    \/ \E r \in Reqs :
          \/ GuardarSelect(r, "ok") \/ GuardarUpdate(r, "ok") \/ GuardarInsert(r, "ok")
          \/ ActualizarDatos(r, "ok") \/ ActualizarSelect(r, "ok")
          \/ ActualizarUpdate(r, "ok") \/ ActualizarPedido(r, "ok")
          \/ ActualizarSync(r, "ok")
          \/ EliminarPedido(r, "ok") \/ EliminarSelect(r, "ok")
          \/ EliminarUpdate(r, "ok") \/ EliminarDelete(r, "ok") \/ EliminarPdf(r, "ok")
          \/ RegistrarInsert(r, "ok") \/ RegistrarUpsert(r, "ok")
          \/ Fin(r)

SpecSeq == InitSeq /\ [][NextSeq]_vars

---------------------------------------------------------------------------
\* The order handlers with overlapping requests and a datastore whose calls
\* may return an error or reject.

ListasCortas == {<<SinPrecio(2, MaxQty)>>}
UpdatesCortos == {<<u>> : u \in {x \in StockUpdates : x.id \in Prods}}

InitFallas ==
    /\ productos = [p \in Prods |-> MaxStock]
    /\ monitor_snapshot \in SnapshotsDe(productos)
    /\ pedidos = PedidosIniciales
    /\ clients_v2 = [u \in Users |-> NoDoc]
    /\ InitComun

NextFallas ==
    \/ /\ CupoReq
       /\ \E r \in Reqs :
             \/ \E l \in ListasCortas : GuardarInicio(r, l, 0)
             \/ \E l \in UpdatesCortos :
                   ActualizarInicio(r, 1, PedidosIniciales[1].items, l)
             \/ EliminarInicio(r, 1, FALSE)
    \/ \E r \in Reqs, o \in Outcomes :
          \/ GuardarSelect(r, o) \/ GuardarUpdate(r, o) \/ GuardarInsert(r, o)
          \/ ActualizarDatos(r, o) \/ ActualizarSelect(r, o)
          \/ ActualizarUpdate(r, o) \/ ActualizarPedido(r, o)
          \/ ActualizarSync(r, o)
          \/ EliminarPedido(r, o) \/ EliminarSelect(r, o)
          \/ EliminarUpdate(r, o) \/ EliminarDelete(r, o) \/ EliminarPdf(r, o)
          \/ RegistrarInsert(r, o) \/ RegistrarUpsert(r, o)
    \/ \E r \in Reqs : Fin(r)

SpecFallas == InitFallas /\ [][NextFallas]_vars

---------------------------------------------------------------------------
\* The debt ledger: overlapping status changes and edits of the orders of two
\* customers, queue tasks whose datastore calls may fail, and the passing of
\* time.

\* More than three months go by, with no request and no task under way: every
\* date that was recent is now old.
Envejecer(f) == IF f = "reciente" THEN "vieja" ELSE f
EnvejecerItems(items) == [k \in DOMAIN items |-> [items[k] EXCEPT !.date = Envejecer(@)]]
EnvejecerDoc(doc) ==
    [items |-> EnvejecerItems(doc.items),
     history |-> [h \in DOMAIN doc.history |->
                     [doc.history[h] EXCEPT !.items = EnvejecerItems(@)]]]

PasaElTiempo ==
    /\ Quieto /\ \A n \in DOMAIN tareas : tareas[n].st = "settled"
    /\ pedidos' = [k \in DOMAIN pedidos |-> [pedidos[k] EXCEPT !.fecha = Envejecer(@)]]
    /\ clients_v2' = [u \in DOMAIN clients_v2 |-> EnvejecerDoc(clients_v2[u])]
    /\ tareas' = [n \in DOMAIN tareas |->
                     [tareas[n] EXCEPT !.fecha = Envejecer(@), !.doc = EnvejecerDoc(@)]]
    /\ <<pedidos', clients_v2', tareas'>> # <<pedidos, clients_v2, tareas>>
    /\ UNCHANGED <<productos, monitor_snapshot, historial_stock, userQueues, req, mon,
                   now, cuenta, stock0, sinCambios>>

\* Order 1 of customer 1 and order 2 of customer 2.
PedidosDeuda ==
    [k \in PedidoIds |->
        [items |-> <<[id |-> k, cantidad |-> 1, precio_unitario |-> 2 * k + 1,
                      subtotal |-> 2 * k + 1]>>,
         total |-> 2 * k + 1, user_id |-> Min(k, NumUsers), estado |-> "",
         fecha |-> "reciente"]]

\* req.body.items of the edits: one line, free or at 3.
ItemsDeuda ==
    {<<[id |-> 1, cantidad |-> 1, precio_unitario |-> u, subtotal |-> u]>> : u \in {0, 3}}

CupoDeuda == cuenta.req < MaxReqDeuda

InitDeuda ==
    /\ productos = [p \in Prods |-> MaxStock]
    /\ monitor_snapshot = [p \in Prods |-> MaxStock]
    /\ pedidos = PedidosDeuda
    /\ clients_v2 = [u \in Users |-> NoDoc]
    /\ InitComun

NextDeuda ==
    \/ /\ CupoDeuda
       /\ \E r \in Reqs :
             \/ \E id \in PedidoIds, estado \in {"Preparado", "Pendiente"} :
                   EstadoInicio(r, id, estado)
             \/ \E it \in ItemsDeuda : ActualizarInicio(r, 1, it, <<>>)
    \/ \E r \in Reqs :
          \/ EstadoUpdate(r, "ok")
          \/ ActualizarDatos(r, "ok") \/ ActualizarPedido(r, "ok") \/ ActualizarSync(r, "ok")
          \/ Fin(r)
    \/ \E n \in DOMAIN tareas, o \in Outcomes : TareaLeer(n, o) \/ TareaEscribir(n, o)
    \/ PasaElTiempo

SpecDeuda == InitDeuda /\ [][NextDeuda]_vars

---------------------------------------------------------------------------
\* The monitor on its own: reconciliation passes run one at a time, every
\* datastore call succeeds, and between passes the stock of a product may be
\* edited directly in the database.  The snapshot table starts with any rows.

\* An out-of-band edit of productos.stock.
EdicionExterna(p, v) ==
    /\ v # productos[p]
    /\ EscribirStock(p, v)
    /\ UNCHANGED <<monitor_snapshot, historial_stock, pedidos, deuda, req, mon, now,
                   cuenta, stock0>>

SnapshotsCualquiera == UNION {[S -> 0..MaxStock] : S \in SUBSET Prods}

InitMon ==
    /\ productos \in [Prods -> 0..MaxStock]
    /\ monitor_snapshot \in SnapshotsCualquiera
    /\ pedidos = PedidosIniciales
    /\ clients_v2 = [u \in Users |-> NoDoc]
    /\ InitComun

NextMon ==
    \/ Quieto /\ CupoMon /\ MonInicio(1)
    \/ Quieto /\ \E p \in Prods, v \in 0..MaxStock : EdicionExterna(p, v)
    \/ \E m \in Mons :
          \/ MonLeerProductos(m, "ok") \/ MonLeerSnapshot(m, "ok")
          \/ MonInsertar(m, "ok") \/ MonUpsert(m, "ok") \/ MonFin(m)

SpecMon == InitMon /\ [][NextMon]_vars

---------------------------------------------------------------------------
\* The monitor with a datastore whose calls may return an error or reject:
\* passes one at a time over any stock and any snapshot table.

NextMonFallas ==
    \/ Quieto /\ CupoMon /\ MonInicio(1)
    \/ \E m \in Mons, o \in Outcomes :
          \/ MonLeerProductos(m, o) \/ MonLeerSnapshot(m, o)
          \/ MonInsertar(m, o) \/ MonUpsert(m, o)
    \/ \E m \in Mons : MonFin(m)

SpecMonFallas == InitMon /\ [][NextMonFallas]_vars

---------------------------------------------------------------------------
\* Overlapping guardar-pedidos requests followed by reconciliation passes:
\* requests overlap each other, a pass starts when no request is under way and
\* a request when no pass is; every datastore call succeeds.

SinRequests == \A r \in Reqs : req[r].op = "idle"
SinPasadas  == \A m \in Mons : mon[m].pc = "idle"

ListasCarrera == {<<SinPrecio(1, 1)>>, <<SinPrecio(2, MaxQty)>>}

NextCarrera ==
    \/ /\ SinPasadas /\ CupoReq
       /\ \E r \in Reqs, l \in ListasCarrera : GuardarInicio(r, l, 0)
    \/ SinRequests /\ Tick
    \/ \E r \in Reqs :
          \/ GuardarSelect(r, "ok") \/ GuardarUpdate(r, "ok") \/ GuardarInsert(r, "ok")
          \/ RegistrarInsert(r, "ok") \/ RegistrarUpsert(r, "ok")
          \/ Fin(r)
    \/ SinRequests /\ CupoMon /\ MonInicio(1)
    \/ \E m \in Mons :
          \/ MonLeerProductos(m, "ok") \/ MonLeerSnapshot(m, "ok")
          \/ MonInsertar(m, "ok") \/ MonUpsert(m, "ok") \/ MonFin(m)

SpecCarrera == InitFallas /\ [][NextCarrera]_vars

---------------------------------------------------------------------------
\* The scheduled monitor: a pass at process start and one per timer tick, for
\* ever, one at a time, over any stock and any snapshot table, with no stock
\* write.  Datastore calls may fail during the first MaxPases - 1 passes and
\* succeed from then on; the timer keeps ticking and every call returns.

PuedeFallar == cuenta.mon < MaxPases

NextVigia ==
    \/ SinPasadas /\ MonInicio(1)
    \/ \E m \in Mons, o \in Outcomes :
          /\ o # "ok" => PuedeFallar
          /\ \/ MonLeerProductos(m, o) \/ MonLeerSnapshot(m, o)
             \/ MonInsertar(m, o) \/ MonUpsert(m, o)
    \/ \E m \in Mons : MonFin(m)

SpecVigia == InitMon /\ [][NextVigia]_vars /\ WF_vars(NextVigia)

---------------------------------------------------------------------------
\* The life of an order: set-status, edit and delete requests on the orders
\* the store holds, one request at a time, every datastore call succeeding;
\* the queued ledger tasks run on their own.

NextCiclo ==
    \/ /\ Quieto /\ CupoDeuda
       /\ \/ \E id \in PedidoIds, estado \in {"Preparado", "Pendiente"} :
                EstadoInicio(1, id, estado)
          \/ \E id \in PedidoIds, l \in UpdatesCortos :
                ActualizarInicio(1, id, PedidosDeuda[id].items, l)
          \/ \E id \in PedidoIds, recibido \in BOOLEAN : EliminarInicio(1, id, recibido)
    \/ \E r \in Reqs :
          \/ EstadoUpdate(r, "ok")
          \/ ActualizarDatos(r, "ok") \/ ActualizarSelect(r, "ok")
          \/ ActualizarUpdate(r, "ok") \/ ActualizarPedido(r, "ok")
          \/ ActualizarSync(r, "ok")
          \/ EliminarPedido(r, "ok") \/ EliminarSelect(r, "ok")
          \/ EliminarUpdate(r, "ok") \/ EliminarDelete(r, "ok") \/ EliminarPdf(r, "ok")
          \/ RegistrarInsert(r, "ok") \/ RegistrarUpsert(r, "ok")
          \/ Fin(r)
    \/ \E n \in DOMAIN tareas : TareaLeer(n, "ok") \/ TareaEscribir(n, "ok")

SpecCiclo == InitDeuda /\ [][NextCiclo]_vars

---------------------------------------------------------------------------
\* Sales of one item whose price fields are absent, a number or a text that
\* is no number, one request at a time, every datastore call succeeding.

CamposPrecio == {<<>>, <<0>>, <<4>>, <<NoNumerico>>}

ItemsConPrecio ==
    {[id |-> p, cantidad |-> c, precio |-> a, precio_unitario |-> b] :
        p \in Prods, c \in 1..MaxQty, a \in CamposPrecio, b \in CamposPrecio}

NextPrecio ==
    \/ Quieto /\ CupoReq /\ \E it \in ItemsConPrecio : GuardarInicio(1, <<it>>, 0)
    \/ Quieto /\ Tick
    \/ \E r \in Reqs :
          \/ GuardarSelect(r, "ok") \/ GuardarUpdate(r, "ok") \/ GuardarInsert(r, "ok")
          \/ RegistrarInsert(r, "ok") \/ RegistrarUpsert(r, "ok")
          \/ Fin(r)

SpecPrecio == InitSeq /\ [][NextPrecio]_vars

---------------------------------------------------------------------------
\* Set-status and edit requests, overlapping, on order 1 of customer 1 and on
\* order 2, which carries no customer id; every datastore call succeeds.

PedidosSync ==
    [k \in PedidoIds |->
        [PedidosDeuda[k] EXCEPT !.user_id = IF k = 1 THEN 1 ELSE 0]]

InitSync ==
    /\ productos = [p \in Prods |-> MaxStock]
    /\ monitor_snapshot = [p \in Prods |-> MaxStock]
    /\ pedidos = PedidosSync
    /\ clients_v2 = [u \in Users |-> NoDoc]
    /\ InitComun

NextSync ==
    \/ /\ CupoDeuda
       /\ \E r \in Reqs :
             \/ \E id \in PedidoIds, estado \in {"Preparado", "Pendiente"} :
                   EstadoInicio(r, id, estado)
             \/ \E id \in PedidoIds, it \in ItemsDeuda : ActualizarInicio(r, id, it, <<>>)
    \/ \E r \in Reqs :
          \/ EstadoUpdate(r, "ok")
          \/ ActualizarDatos(r, "ok") \/ ActualizarPedido(r, "ok") \/ ActualizarSync(r, "ok")
          \/ Fin(r)
    \/ \E n \in DOMAIN tareas : TareaLeer(n, "ok") \/ TareaEscribir(n, "ok")

SpecSync == InitSync /\ [][NextSync]_vars

---------------------------------------------------------------------------
\* Sales and monitor passes that overlap: every stock change is made by
\* guardar-pedidos and recorded, the snapshot starts equal to the stock, and
\* every datastore call succeeds.

InitSolape ==
    /\ productos = [p \in Prods |-> MaxStock]
    /\ monitor_snapshot = productos
    /\ pedidos = PedidosIniciales
    /\ clients_v2 = [u \in Users |-> NoDoc]
    /\ InitComun

NextSolape ==
    \/ CupoReq /\ \E l \in ListasCarrera : GuardarInicio(1, l, 0)
    \/ SinRequests /\ Tick
    \/ \E r \in Reqs :
          \/ GuardarSelect(r, "ok") \/ GuardarUpdate(r, "ok") \/ GuardarInsert(r, "ok")
          \/ RegistrarInsert(r, "ok") \/ RegistrarUpsert(r, "ok")
          \/ Fin(r)
    \/ CupoMon /\ MonInicio(1)
    \/ \E m \in Mons :
          \/ MonLeerProductos(m, "ok") \/ MonLeerSnapshot(m, "ok")
          \/ MonInsertar(m, "ok") \/ MonUpsert(m, "ok") \/ MonFin(m)

SpecSolape == InitSolape /\ [][NextSolape]_vars

---------------------------------------------------------------------------
\* Fulfilments and edits of order 1 on a ledger that already holds items:
\* debts and payments, dated inside the window, before it or not at all,
\* owing or paid.  Every datastore call succeeds.

ItemsLibro ==
    {[id |-> 2, type |-> ty, amount |-> 2, paid |-> pd, date |-> f] :
        ty \in {"debt", "payment"}, pd \in {0, 2}, f \in {"", "reciente", "vieja"}}

LibrosIniciales == {<<x>> : x \in ItemsLibro} \cup {<<x, y>> : x \in ItemsLibro, y \in ItemsLibro}

InitLimpieza ==
    /\ productos = [p \in Prods |-> MaxStock]
    /\ monitor_snapshot = [p \in Prods |-> MaxStock]
    /\ pedidos = PedidosDeuda
    /\ \E l \in LibrosIniciales :
          clients_v2 = [u \in Users |-> [items |-> l, history |-> <<>>]]
    /\ InitComun

NextLimpieza ==
    \/ /\ CupoReq
       /\ \E r \in Reqs :
             \/ EstadoInicio(r, 1, "Preparado")
             \/ \E it \in ItemsDeuda : ActualizarInicio(r, 1, it, <<>>)
    \/ \E r \in Reqs :
          \/ EstadoUpdate(r, "ok")
          \/ ActualizarDatos(r, "ok") \/ ActualizarPedido(r, "ok") \/ ActualizarSync(r, "ok")
          \/ Fin(r)
    \/ \E n \in DOMAIN tareas : TareaLeer(n, "ok") \/ TareaEscribir(n, "ok")

SpecLimpieza == InitLimpieza /\ [][NextLimpieza]_vars

---------------------------------------------------------------------------
\* Fulfilments and edits of order 1 on a ledger whose history already holds
\* entries, fewer than the cap, as many, or more.  Every datastore call
\* succeeds.

MaxHistory == capHistory + 2

HistoriaDe(n) == [k \in 1..n |-> [items |-> <<>>, type |-> "payment"]]

InitHistorial ==
    /\ productos = [p \in Prods |-> MaxStock]
    /\ monitor_snapshot = [p \in Prods |-> MaxStock]
    /\ pedidos = PedidosDeuda
    /\ \E n \in 0..MaxHistory :
          clients_v2 = [u \in Users |-> [items |-> <<>>, history |-> HistoriaDe(n)]]
    /\ InitComun

SpecHistorial == InitHistorial /\ [][NextLimpieza]_vars

---------------------------------------------------------------------------
\* The ledger synchronisation under failures: set-status and edit requests on
\* order 1, overlapping, of a customer who may have no ledger row; the lookup
\* of actualizar-pedido and the datastore calls of the queued tasks may fail.

InitLibro ==
    /\ productos = [p \in Prods |-> MaxStock]
    /\ monitor_snapshot = [p \in Prods |-> MaxStock]
    /\ pedidos = PedidosDeuda
    /\ \E S \in SUBSET Users : clients_v2 = [u \in S |-> NoDoc]
    /\ InitComun

NextLibro ==
    \/ /\ CupoDeuda
       /\ \E r \in Reqs :
             \/ \E estado \in {"Preparado", "Pendiente"} : EstadoInicio(r, 1, estado)
             \/ \E it \in ItemsDeuda : ActualizarInicio(r, 1, it, <<>>)
    \/ \E r \in Reqs :
          \/ EstadoUpdate(r, "ok")
          \/ ActualizarDatos(r, "ok") \/ ActualizarPedido(r, "ok")
          \/ \E o \in Outcomes : ActualizarSync(r, o)
          \/ Fin(r)
    \/ \E n \in DOMAIN tareas, o \in Outcomes : TareaLeer(n, o) \/ TareaEscribir(n, o)

SpecLibro == InitLibro /\ [][NextLibro]_vars

---------------------------------------------------------------------------
\* Passes that overlap: the pass of the process start, the pass of a timer
\* tick and a forced pass share no lock, so a pass may begin while another is
\* under way.  The stock of a product differs from its snapshot row by at
\* most the one change made before the passes; nothing writes the stock
\* while they run, and every datastore call succeeds.

NextDoble ==
    \/ CupoMon /\ \E m \in Mons : MonInicio(m)
    \/ \E m \in Mons :
          \/ MonLeerProductos(m, "ok") \/ MonLeerSnapshot(m, "ok")
          \/ MonInsertar(m, "ok") \/ MonUpsert(m, "ok") \/ MonFin(m)

SpecDoble == InitMon /\ [][NextDoble]_vars

---------------------------------------------------------------------------
\* Every writer of the movement table: sales, edits, deletions and
\* acknowledgements, overlapping, and monitor passes between them; the stock
\* handlers and the monitor meet no datastore error.  The stock of product 1
\* was changed out of band before the start.

InitHistoria ==
    /\ productos = [p \in Prods |-> MaxStock]
    /\ monitor_snapshot = [p \in Prods |-> IF p = 1 THEN MaxStock - 1 ELSE MaxStock]
    /\ pedidos = PedidosIniciales
    /\ clients_v2 = [u \in Users |-> NoDoc]
    /\ InitComun

NextHistoria ==
    \/ /\ CupoReq /\ SinPasadas
       /\ \E r \in Reqs :
             \/ \E l \in ListasCortas : GuardarInicio(r, l, 0)
             \/ \E l \in UpdatesCortos :
                   ActualizarInicio(r, 1, PedidosIniciales[1].items, l)
             \/ EliminarInicio(r, 1, FALSE)
             \/ \E id \in 1..MaxReq : CheckInicio(r, id)
    \/ \E r \in Reqs :
          \/ GuardarSelect(r, "ok") \/ GuardarUpdate(r, "ok") \/ GuardarInsert(r, "ok")
          \/ ActualizarDatos(r, "ok") \/ ActualizarSelect(r, "ok")
          \/ ActualizarUpdate(r, "ok") \/ ActualizarPedido(r, "ok")
          \/ ActualizarSync(r, "ok")
          \/ EliminarPedido(r, "ok") \/ EliminarSelect(r, "ok")
          \/ EliminarUpdate(r, "ok") \/ EliminarDelete(r, "ok") \/ EliminarPdf(r, "ok")
          \/ RegistrarInsert(r, "ok") \/ RegistrarUpsert(r, "ok")
          \/ \E o \in Outcomes : CheckUpdate(r, o)
          \/ Fin(r)
    \/ SinRequests /\ CupoMon /\ MonInicio(1)
    \/ \E m \in Mons :
          \/ MonLeerProductos(m, "ok") \/ MonLeerSnapshot(m, "ok")
          \/ MonInsertar(m, "ok") \/ MonUpsert(m, "ok") \/ MonFin(m)

SpecHistoria == InitHistoria /\ [][NextHistoria]_vars

---------------------------------------------------------------------------
\* Properties.

EsDeltaDePedido(m) ==
    m.tipo_movimiento \in {"VENTA", "MODIF_PEDIDO", "ELIMINAR_PEDIDO"}

\* The sum of the deltas of the first n movement records of product p that
\* were written by the order handlers.
RECURSIVE SumaDeltas(_, _)
SumaDeltas(p, n) ==
    IF n = 0 THEN 0
    ELSE SumaDeltas(p, n - 1)
         + (IF historial_stock[n].producto_id = p /\ EsDeltaDePedido(historial_stock[n])
            THEN historial_stock[n].cantidad_cambio ELSE 0)

EnReposo == \A r \in Reqs : req[r].pc \in {"idle", "done"}

\* C1: after each of a sequence of place, edit and delete operations run one
\* after another without datastore failure, the stock of every product is its
\* initial stock plus the sum of the deltas of its VENTA, MODIF_PEDIDO and
\* ELIMINAR_PEDIDO movements.
C1_StockEsSumaDeDeltas ==
    EnReposo =>
        \A p \in Prods : productos[p] = stock0[p] + SumaDeltas(p, Len(historial_stock))

C1_Witness ==
    /\ EnReposo
    /\ \E k \in DOMAIN historial_stock : historial_stock[k].tipo_movimiento = "VENTA"
    /\ \E k \in DOMAIN historial_stock :
          historial_stock[k].tipo_movimiento \in {"MODIF_PEDIDO", "ELIMINAR_PEDIDO"}
    /\ \E p \in Prods : productos[p] < 0

\* The movement records appended since the handler run q began.
MovsDe(q) == SubSeq(historial_stock, q.h0 + 1, Len(historial_stock))

\* The records movs are one per element of lista, in order, of kind tipo, each
\* with delta signo * cantidad from the stock left by the previous change of the
\* same product (before the first one: the stock when the run began), and the
\* stock now is the one the last change of each product wrote.
UnMovimientoPorItem(q, lista, movs, tipo, signo) ==
    /\ Len(movs) = Len(lista)
    /\ \A i \in DOMAIN lista :
          LET p == lista[i].id
              previos == {j \in 1..(i - 1) : lista[j].id = p}
              leido == IF previos = {}
                       THEN stock0[p] + SumaDeltas(p, q.h0)
                       ELSE movs[CHOOSE j \in previos : \A k \in previos : k <= j].stock_nuevo
          IN movs[i] = Movimiento(p, signo * lista[i].cantidad, leido,
                                  leido + signo * lista[i].cantidad, tipo, q.id)
    /\ \A p \in Prods :
          LET suyos == {i \in DOMAIN lista : lista[i].id = p}
          IN suyos # {} =>
                productos[p] = movs[CHOOSE i \in suyos : \A k \in suyos : k <= i].stock_nuevo

\* C8: a successful place-order stores an order whose line i has subtotal
\* quantity * unit price and whose total is the sum of the subtotals, takes each
\* quantity out of the stock read, and records exactly one VENTA movement per
\* item with delta -quantity, the stock read, the stock written and the order id.
C8_PedidoGuardado ==
    \A r \in Reqs :
        LET q == req[r] IN
        (q.op = "guardar" /\ q.pc = "done" /\ q.res = 200) =>
            /\ q.id \in DOMAIN pedidos
            /\ LET fila == pedidos[q.id] IN
               /\ Len(fila.items) = Len(q.lista)
               /\ \A i \in DOMAIN q.lista :
                     /\ fila.items[i].id = q.lista[i].id
                     /\ fila.items[i].cantidad = q.lista[i].cantidad
                     /\ fila.items[i].subtotal
                           = q.lista[i].cantidad * fila.items[i].precio_unitario
               /\ fila.total = SumSeq([i \in DOMAIN fila.items |-> fila.items[i].subtotal])
            /\ UnMovimientoPorItem(q, q.lista, MovsDe(q), "VENTA", -1)

C8_Witness ==
    \E r \in Reqs :
        /\ req[r].op = "guardar" /\ req[r].pc = "done" /\ req[r].res = 200
        /\ Len(req[r].lista) = 2
        /\ req[r].lista[1].id = req[r].lista[2].id
        /\ req[r].lista[1].cantidad # req[r].lista[2].cantidad
        /\ req[r].h0 > 0

\* C9 (final states): after a delete with recibido false there is exactly one
\* ELIMINAR_PEDIDO movement per line item with delta +quantity, on top of the
\* current stock; after a delete with recibido true there is no new movement;
\* in both cases the order row is gone.
C9_Final ==
    \A r \in Reqs :
        LET q == req[r] IN
        (q.op = "eliminar" /\ q.pc = "done" /\ q.res = 200) =>
            /\ q.id \notin DOMAIN pedidos
            /\ q.recibido => MovsDe(q) = <<>>
            /\ ~q.recibido =>
                  UnMovimientoPorItem(q, q.lista, MovsDe(q), "ELIMINAR_PEDIDO", 1)

\* C9 (steps): no step of a delete with recibido true changes a stock, a
\* snapshot row or the movement table.
C9_Paso ==
    \A r \in Reqs :
        (req[r].op = "eliminar" /\ req[r].recibido /\ req'[r] # req[r]) =>
            UNCHANGED <<productos, monitor_snapshot, historial_stock>>

\* C9: deleting an order that was not fulfilled puts every line item's quantity
\* back into stock with one ELIMINAR_PEDIDO movement each; deleting a fulfilled
\* order touches no stock, no snapshot and no movement; the row is deleted.
C9_EliminarRestaura == [][C9_Paso /\ C9_Final']_vars

C9_Witness ==
    \E r \in Reqs :
        /\ req[r].op = "eliminar" /\ req[r].pc = "done" /\ req[r].res = 200
        /\ ~req[r].recibido
        /\ Len(req[r].lista) = 2

C9_WitnessRecibido ==
    \E r \in Reqs :
        /\ req[r].op = "eliminar" /\ req[r].pc = "done" /\ req[r].res = 200
        /\ req[r].recibido

\* The movement records of product p among movs.
RECURSIVE DelProducto(_, _)
DelProducto(movs, p) ==
    IF movs = <<>> THEN <<>>
    ELSE (IF Head(movs).producto_id = p THEN <<Head(movs)>> ELSE <<>>)
         \o DelProducto(Tail(movs), p)

\* Product p had a snapshot row that differed from its stock when pass q began.
Desviado(q, p) == p \in DOMAIN q.foto0 /\ q.foto0[p] # productos[p]

\* C3: a reconciliation pass without datastore error records, for every product
\* whose snapshot s exists and differs from its live stock l, exactly one
\* 'ajuste db' movement with reference MONITOR, delta l - s, stock before s and
\* stock after l, and sets its snapshot to l; a product whose snapshot equals
\* its stock gets no movement and no snapshot write.
C3_AjustePorDesvio ==
    \A m \in Mons :
        LET q == mon[m] IN
        q.pc = "done" =>
            \A p \in Prods :
                LET suyos == DelProducto(MovsDe(q), p) IN
                IF Desviado(q, p)
                THEN /\ suyos = <<Movimiento(p, productos[p] - q.foto0[p], q.foto0[p],
                                             productos[p], "ajuste db", MONITOR)>>
                     /\ p \in DOMAIN monitor_snapshot
                     /\ monitor_snapshot[p] = productos[p]
                ELSE /\ suyos = <<>>
                     /\ p \in DOMAIN q.foto0 =>
                           \A k \in DOMAIN q.snapshotUpdates : q.snapshotUpdates[k].id # p

C3_Witness ==
    \E m \in Mons :
        /\ mon[m].pc = "done"
        /\ Desviado(mon[m], 1) /\ productos[1] < mon[m].foto0[1]
        /\ 2 \in DOMAIN mon[m].foto0 /\ ~Desviado(mon[m], 2)
        /\ mon[m].ret = 1

\* C4: a reconciliation pass that follows another one with no stock change in
\* between appends no movement record and returns 0.
C4_SegundaPasadaEnCero ==
    [][(sinCambios /\ \E m \in Mons : mon'[m] # mon[m]) =>
          /\ historial_stock' = historial_stock
          /\ \A m \in Mons : mon'[m].pc = "done" => mon'[m].ret = 0]_vars

C4_Witness ==
    \E m \in Mons :
        /\ mon[m].pc = "done" /\ mon[m].ret = 0
        /\ cuenta.mon = 2
        /\ Len(historial_stock) = 2
        /\ mon[m].h0 = 2

EnRecorder(q) == q.pc \in {"regInsert", "regUpsert"}

\* C2: a call of registrarMovimiento for product p with stock after n whose
\* two datastore calls succeed appends its movement record once, at its
\* insert, and when it returns the snapshot row of p holds n and the record is
\* in the history.
C2_RecorderDejaSnapshot ==
    [][\A r \in Reqs :
          LET q == req[r] IN
          /\ (q.pc = "regInsert" /\ req'[r] # q /\ ~req'[r].regErr) =>
                /\ historial_stock' = Append(historial_stock, q.mov)
                /\ req'[r].pc = "regUpsert"
          /\ (q.pc = "regUpsert" /\ req'[r] # q /\ ~req'[r].regErr) =>
                /\ historial_stock' = historial_stock
                /\ \E k \in DOMAIN historial_stock : historial_stock[k] = q.mov
                /\ q.mov.producto_id \in DOMAIN monitor_snapshot'
                /\ monitor_snapshot'[q.mov.producto_id] = q.mov.stock_nuevo]_vars

\* A recorder call has returned while another request had written the same
\* product in between.
C2_Witness ==
    \E r, t \in Reqs :
        /\ r # t
        /\ req[r].op = "actualizar" /\ req[r].pc = "updPedido" /\ ~req[r].regErr
        /\ EnRecorder(req[t]) /\ req[t].mov.producto_id = req[r].mov.producto_id
        /\ req[r].mov.producto_id \in DOMAIN monitor_snapshot
        /\ monitor_snapshot[req[r].mov.producto_id] = req[r].mov.stock_nuevo
        /\ productos[req[r].mov.producto_id] # req[r].mov.stock_nuevo

\* C10: in guardar-pedidos, actualizar-pedido and eliminar-pedido the recorder
\* is entered only in the step in which the stock update of the same change
\* returned without error, with the product row holding the recorded stock;
\* when the update returns an error the recorder is not entered, and a request
\* changes the history or the snapshot only inside a recorder call.
C10_RecorderTrasUpdate ==
    [][\A r \in Reqs :
          LET q == req[r] IN
          /\ (req'[r].pc = "regInsert" /\ q.pc # "regInsert") =>
                /\ q.pc = "update" /\ ~req'[r].updErr
                /\ req'[r].mov = q.mov
                /\ productos'[q.mov.producto_id] = q.mov.stock_nuevo
          /\ (q.pc = "update" /\ req'[r] # q /\ productos' = productos /\ req'[r].updErr) =>
                /\ ~EnRecorder(req'[r])
                /\ historial_stock' = historial_stock
                /\ monitor_snapshot' = monitor_snapshot
          /\ (req'[r] # q /\ (historial_stock' # historial_stock
                               \/ monitor_snapshot' # monitor_snapshot)) =>
                EnRecorder(q) /\ ~q.updErr]_vars

\* An edit whose stock update failed has gone on to store the order without a
\* movement record.
C10_Witness ==
    \E r \in Reqs :
        /\ req[r].op = "actualizar" /\ req[r].pc = "updPedido" /\ req[r].updErr
        /\ Len(historial_stock) = req[r].h0

\* The positions of the lines of order id in a ledger.
LineasDe(doc, id) == {k \in DOMAIN doc.items : doc.items[k].id = id}

\* Every task enqueued before task n for the same customer.
AnterioresDe(n) == {a \in 1..(n - 1) : tareas[a].user_id = tareas[n].user_id}

\* C5: of two tasks enqueued through runInQueue for the same customer, the
\* later one takes its first step, the read of the customer document, only
\* when the earlier one has settled, by its write or by its failure.
C5_TareasEnOrden ==
    [][\A n \in DOMAIN tareas :
          (tareas[n].st = "pending" /\ tareas'[n].st # "pending") =>
              \A a \in AnterioresDe(n) : tareas[a].st = "settled"]_vars

\* A task waits while the customer's previous task is between read and write.
C5_Witness ==
    \E n \in DOMAIN tareas :
        /\ tareas[n].st = "pending"
        /\ \E a \in AnterioresDe(n) : tareas[a].st = "write"

\* C6: for every customer at most one task, of actualizar-estado-pedido or of
\* actualizar-pedido, is between its read of the customer document and its
\* write-back.
C6_UnEscritorPorCliente ==
    \A u \in Users :
        Cardinality({n \in DOMAIN tareas : tareas[n].user_id = u /\ tareas[n].st = "write"}) <= 1

\* An edit task is between read and write while a status task of the same
\* customer, enqueued after it, waits.
C6_Witness ==
    \E a, b \in DOMAIN tareas :
        /\ a < b /\ tareas[a].user_id = tareas[b].user_id
        /\ tareas[a].tipo = "edit" /\ tareas[a].st = "write"
        /\ tareas[b].tipo = "estado" /\ tareas[b].st = "pending"

\* No ledger holds two lines of the same order.
NuncaDosLineas ==
    \A u \in Users, id \in PedidoIds : Cardinality(LineasDe(clients_v2[u], id)) <= 1

\* The write of an actualizar-estado-pedido task takes effect in this step.
EscrituraDeEstado(n) ==
    /\ tareas[n].tipo = "estado"
    /\ tareas[n].st = "write" /\ tareas'[n].st = "settled"
    /\ clients_v2' # clients_v2

\* post has the history of pre with one entry put in front (and the oldest
\* dropped at the cap).
UnaEntradaMas(pre, post) ==
    /\ post.history # <<>>
    /\ post.history = RecortarHistory(<<Head(post.history)>> \o pre.history)

\* C7: no ledger ever holds two lines of the same order; a fulfilment that
\* finds no line of the order adds exactly one line and one history entry; a
\* fulfilment that finds the line writes only when the rounded total differs
\* from the line's amount, and then changes that amount in place and adds
\* exactly one history entry.
C7_FulfilDosVeces ==
    [][/\ NuncaDosLineas'
       /\ \A n \in DOMAIN tareas :
             EscrituraDeEstado(n) =>
                LET t    == tareas[n]
                    pre  == clients_v2[t.user_id]
                    post == clients_v2'[t.user_id]
                    k0   == LineasDe(pre, t.pedido_id)
                    k1   == LineasDe(post, t.pedido_id)
                IN /\ UnaEntradaMas(pre, post)
                   /\ IF k0 = {}
                      THEN /\ Cardinality(k1) = 1
                           /\ Len(post.items) <= Len(pre.items) + 1
                      ELSE \E i \in k0, j \in k1 :
                              /\ pre.items[i].amount # Redondear(t.total)
                              /\ post.items[j] =
                                    [pre.items[i] EXCEPT !.amount = Redondear(t.total)]]_vars

\* C11: a pass in which a datastore call (a read of productos, a read of
\* monitor_snapshot, the insert of a drift movement or the upsert of a
\* snapshot batch) returned an error or rejected has stopped there and
\* returns 0.
C11_FalloAbortaLaPasada ==
    \A m \in Mons : mon[m].fallo => mon[m].pc = "done" /\ mon[m].ret = 0

\* C12: the promise runInQueue returns is never rejected, and a task all of
\* whose predecessors for the same customer have ended, one of them by
\* failing, can run.
C12_FalloNoBloquea ==
    \A n \in DOMAIN tareas :
        /\ tareas[n].st # "rejected"
        /\ ( /\ tareas[n].st = "pending"
             /\ \A a \in AnterioresDe(n) : tareas[a].fallo \/ tareas[a].st = "settled"
             /\ \E a \in AnterioresDe(n) : tareas[a].fallo )
           => ENABLED TareaLeer(n, "ok")

\* A task is writing the ledger back after the customer's previous task failed.
C12_Witness ==
    \E n \in DOMAIN tareas :
        /\ tareas[n].st = "write"
        /\ \E a \in AnterioresDe(n) : tareas[a].fallo

\* C13: a waiting task can start exactly when every earlier task of its own
\* customer has settled, whatever the tasks of other customers are doing, and
\* a task that has read can always write back; so a task of customer A that
\* hangs between read and write blocks A's later tasks and nobody else's.
C13_ClientesIndependientes ==
    \A n \in DOMAIN tareas :
        /\ tareas[n].st = "pending" =>
              ((ENABLED TareaLeer(n, "ok"))
                  <=> \A a \in AnterioresDe(n) : tareas[a].st = "settled")
        /\ tareas[n].st = "write" => ENABLED TareaEscribir(n, "ok")

\* While a task of one customer is between read and write and a later task of
\* that customer waits, a task of the other customer enqueued after both has
\* written the ledger and settled.
C13_Witness ==
    \E a, b, c \in DOMAIN tareas :
        /\ a < b /\ b < c
        /\ tareas[a].user_id = tareas[b].user_id /\ tareas[c].user_id # tareas[a].user_id
        /\ tareas[a].st = "write" /\ tareas[b].st = "pending"
        /\ tareas[c].st = "settled" /\ ~tareas[c].fallo
        /\ clients_v2[tareas[c].user_id].items # <<>>

\* The sum of the deltas of the first n movement records of product p,
\* drift adjustments included.
RECURSIVE SumaTodos(_, _)
SumaTodos(p, n) ==
    IF n = 0 THEN 0
    ELSE SumaTodos(p, n - 1)
         + (IF historial_stock[n].producto_id = p
            THEN historial_stock[n].cantidad_cambio ELSE 0)

\* C14: once the requests have stopped and a reconciliation pass has run and
\* returned after the last stock write, the initial stock of every product
\* plus the sum of all its recorded deltas, drift adjustments included, equals
\* its live stock.
C14_MonitorCierraLaBrecha ==
    (SinRequests /\ SinPasadas /\ sinCambios) =>
        \A p \in Prods : stock0[p] + SumaTodos(p, Len(historial_stock)) = productos[p]

\* A drift adjustment of product p has been recorded.
HayAjuste(p) ==
    \E k \in DOMAIN historial_stock :
        /\ historial_stock[k].producto_id = p
        /\ historial_stock[k].tipo_movimiento = "ajuste db"

\* The snapshot row of product p exists and differs from its stock.
HayDesvio(p) == p \in DOMAIN monitor_snapshot /\ monitor_snapshot[p] # productos[p]

\* C15: with no further stock write, a product whose snapshot differs from
\* its stock eventually has a drift adjustment on record and a snapshot equal
\* to its stock, once datastore calls succeed.
C15_DesvioAcabaRegistrado ==
    \A p \in Prods : HayDesvio(p) ~> (HayAjuste(p) /\ ~HayDesvio(p))

---------------------------------------------------------------------------
\* C16: a step of the recorder in which the movement insert or the snapshot
\* upsert fails or throws leaves every product's stock as it was, sends no
\* response, and leaves the enclosing guardar, actualizar or eliminar run at
\* the statement it would run after a recorder call without failure.
C16_FalloDelRecorder ==
    [][\A r \in Reqs :
          LET q == req[r] IN
          (EnRecorder(q) /\ req'[r] # q /\ req'[r].regErr) =>
              /\ productos' = productos
              /\ req'[r].res = 0 /\ req'[r].pc # "done"
              /\ \/ q.pc = "regInsert" /\ req'[r].pc = "regUpsert"
                 \/ [req'[r] EXCEPT !.regErr = FALSE] =
                        Continuar([q EXCEPT !.regErr = FALSE])]_vars

\* A sale has answered 200 although its last recorder call failed, and the
\* stock it wrote is still the product's stock.
C16_Witness ==
    \E r \in Reqs :
        /\ req[r].op = "guardar" /\ req[r].pc = "done" /\ req[r].res = 200
        /\ req[r].regErr /\ ~req[r].updErr
        /\ productos[req[r].mov.producto_id] = req[r].mov.stock_nuevo

---------------------------------------------------------------------------
\* C17: in guardar-pedidos, actualizar-pedido and eliminar-pedido the step in
\* which a product stock update returns an error ends the run with an error
\* response, and no run that answers 200 holds a failed stock update.
C17_FalloDeStockAborta ==
    [][\A r \in Reqs :
          LET q == req[r] IN
          /\ (q.pc = "update" /\ req'[r] # q /\ req'[r].updErr) =>
                req'[r].pc = "done" /\ req'[r].res >= 400
          /\ (req'[r].pc = "done" /\ req'[r].res = 200) => ~req'[r].updErr]_vars

---------------------------------------------------------------------------
\* C18: the stock of every product is at least zero in every state reached by
\* guardar-pedidos, actualizar-pedido and eliminar-pedido runs that start from
\* stocks of at least zero.
C18_StockNoNegativo == \A p \in Prods : productos[p] >= 0

---------------------------------------------------------------------------
ConId(q) == q.op = "guardar" /\ q.lista # <<>>

\* C19: no two guardar-pedidos runs hold the same generated order id, two runs
\* that began at the same clock value included.
C19_IdUnico ==
    \A r, s \in Reqs :
        (r # s /\ ConId(req[r]) /\ ConId(req[s])) => req[r].id # req[s].id

---------------------------------------------------------------------------
Borrado(id) == id \in DOMAIN PedidosDeuda /\ id \notin DOMAIN pedidos

\* C20: a set-status request never changes the status of an order that is
\* 'Preparado', and no step of an edit, set-status or delete request on the
\* id of a deleted order changes a stock, the movement history or a debt
\* ledger.
C20_EstadosTerminales ==
    [][/\ \A id \in DOMAIN pedidos \cap DOMAIN pedidos' :
             pedidos[id].estado = "Preparado" => pedidos'[id].estado = "Preparado"
       /\ \A r \in Reqs :
             (Borrado(req[r].id) /\ req'[r] # req[r]) =>
                 /\ productos' = productos
                 /\ historial_stock' = historial_stock
                 /\ clients_v2' = clients_v2]_vars

---------------------------------------------------------------------------
Malo(it) == it.id \notin Prods \/ it.cantidad <= 0

HayMalo(lista) == lista = <<>> \/ \E k \in DOMAIN lista : Malo(lista[k])

\* C21: a guardar-pedidos run whose list is empty, or holds an item of an
\* unknown product or with a quantity of zero or less, stores no order row in
\* any of its steps and answers 400; when the list is not empty the answer
\* names the product id of the first such item.
C21_PedidoRechazado ==
    [][\A r \in Reqs :
          LET q == req'[r] IN
          (q.op = "guardar" /\ q # req[r] /\ HayMalo(q.lista)) =>
              /\ pedidos' = pedidos
              /\ q.pc = "done" =>
                    /\ q.res = 400
                    /\ q.lista # <<>> =>
                          LET k == Primero({j \in DOMAIN q.lista : Malo(q.lista[j])})
                          IN q.idx = k /\ q.nombrado = q.lista[k].id]_vars

\* A sale has been refused at its second item after the first one was sold.
C21_Witness ==
    \E r \in Reqs :
        /\ req[r].op = "guardar" /\ req[r].pc = "done" /\ req[r].res = 400
        /\ Len(req[r].lista) = 2 /\ ~Malo(req[r].lista[1]) /\ Malo(req[r].lista[2])
        /\ req[r].nombrado = req[r].lista[2].id

---------------------------------------------------------------------------
\* C22: the unit price of every line a guardar-pedidos run has built is the
\* number of the item's precio when the field is present, else the number of
\* its precio_unitario when that field is present, else the price of the
\* product row; and the line's subtotal is the quantity times that price.
C22_OrdenDelPrecio ==
    \A r \in Reqs :
        LET q == req[r] IN
        q.op = "guardar" =>
            \A k \in DOMAIN q.items :
                LET it == q.lista[k]
                    pu == q.items[k].precio_unitario
                IN /\ it.precio # <<>> => pu = Numero(it.precio[1])
                   /\ (it.precio = <<>> /\ it.precio_unitario # <<>>) =>
                         pu = Numero(it.precio_unitario[1])
                   /\ (it.precio = <<>> /\ it.precio_unitario = <<>>) =>
                         pu = precioDB[it.id]
                   /\ q.items[k].subtotal = it.cantidad * pu

\* A sale whose item carried both fields has been stored at the precio.
C22_Witness ==
    \E r \in Reqs :
        /\ req[r].op = "guardar" /\ req[r].pc = "done" /\ req[r].res = 200
        /\ req[r].lista[1].precio = <<4>> /\ req[r].lista[1].precio_unitario = <<0>>
        /\ req[r].id \in DOMAIN pedidos
        /\ pedidos[req[r].id].items[1].precio_unitario = 4

---------------------------------------------------------------------------
EsDeProducto(u) == u.id \in Prods

\* C23: when actualizar-pedido has answered 200, the run has recorded exactly
\* one MODIF_PEDIDO movement per entry of stockUpdates that names a product, in
\* order, each with delta -cantidad on top of the stock read, whatever the new
\* items are; and the order row holds the new items and the sum of their
\* cantidad * precio_unitario as total.
C23_EdicionPorDeltas ==
    \A r \in Reqs :
        LET q == req[r] IN
        (q.op = "actualizar" /\ q.pc = "done" /\ q.res = 200) =>
            /\ UnMovimientoPorItem(q, SelectSeq(q.lista, EsDeProducto), MovsDe(q),
                                   "MODIF_PEDIDO", -1)
            /\ q.id \in DOMAIN pedidos =>
                  /\ pedidos[q.id].items = q.items
                  /\ pedidos[q.id].total =
                        SumSeq([k \in DOMAIN q.items |->
                                   q.items[k].cantidad * q.items[k].precio_unitario])

\* An edit has taken the same amount out of one product twice and stored
\* items that say nothing of it.
C23_Witness ==
    \E r \in Reqs :
        LET q == req[r] IN
        /\ q.op = "actualizar" /\ q.pc = "done" /\ q.res = 200
        /\ Len(q.lista) = 2 /\ q.lista[1] = q.lista[2] /\ q.lista[1].id \in Prods
        /\ Len(MovsDe(q)) = 2
        /\ q.id \in DOMAIN pedidos /\ pedidos[q.id].items = q.items
        /\ Len(q.items) = 1

---------------------------------------------------------------------------
NuevaTarea == Len(tareas') = Len(tareas) + 1

EnqueueDeEdit(r) ==
    LET q == req[r]
        t == tareas'[Len(tareas')]
    IN /\ q.pc = "selInfo" /\ req'[r].pc = "done"
       /\ q.id \in DOMAIN pedidos
       /\ pedidos[q.id].estado = "Preparado" /\ pedidos[q.id].user_id # 0
       /\ t.tipo = "edit" /\ t.user_id = pedidos[q.id].user_id
       /\ t.prev = userQueues[t.user_id] /\ userQueues'[t.user_id] = Len(tareas')
       /\ t.pedido_id = q.id /\ t.total = TotalItems(q.items)

LineaDeuda(doc, id) ==
    Primero({k \in DOMAIN doc.items : doc.items[k].id = id /\ doc.items[k].type = "debt"})

PasoDeTareaEdit(n) ==
    LET t == tareas[n]
        pre == clients_v2[t.user_id]
        post == clients_v2'[t.user_id]
        k == LineaDeuda(pre, t.pedido_id)
        difiere == k # 0 /\ pre.items[k].amount # Redondear(t.total)
    IN /\ \A u \in Users \ {t.user_id} : clients_v2'[u] = clients_v2[u]
       /\ t.st = "pending" => (post = pre /\ (tareas'[n].st = "write" <=> difiere))
       /\ t.st = "write" =>
             /\ difiere
             /\ post.items = [pre.items EXCEPT ![k].amount = Redondear(t.total)]
             /\ UnaEntradaMas(pre, post)
             /\ Head(post.history).items = pre.items

\* C24: actualizar-pedido enqueues a task only in the step that reads the
\* order row and finds it 'Preparado' with a customer id, and the task is
\* chained to that customer's queue with the new total; no step of the request
\* itself writes a ledger.  The task goes on to write exactly when the ledger
\* holds a debt line of the order whose amount differs from the rounded total;
\* its write sets that amount in place, adds one history entry that holds the
\* items as they were, and leaves the other ledgers alone.
C24_EdicionYDeuda ==
    [][/\ \A r \in Reqs :
             (req[r].op = "actualizar" /\ req'[r] # req[r]) =>
                 /\ clients_v2' = clients_v2
                 /\ IF NuevaTarea THEN EnqueueDeEdit(r)
                    ELSE /\ tareas' = tareas /\ userQueues' = userQueues
                         /\ (req[r].pc = "selInfo" /\ req[r].id \in DOMAIN pedidos) =>
                               (pedidos[req[r].id].estado # "Preparado"
                                \/ pedidos[req[r].id].user_id = 0)
       /\ \A n \in DOMAIN tareas :
             (tareas[n].tipo = "edit" /\ tareas'[n] # tareas[n]) => PasoDeTareaEdit(n)
      ]_vars

\* An edit task has changed the amount of the order's debt line, and the
\* newest history entry holds the line with the amount it had.
C24_Witness ==
    \E n \in DOMAIN tareas :
        LET t == tareas[n]
            doc == clients_v2[t.user_id]
            k == LineaDeuda(doc, t.pedido_id)
        IN /\ t.tipo = "edit" /\ t.st = "settled" /\ k # 0
           /\ doc.items[k].amount = Redondear(t.total)
           /\ doc.history # <<>> /\ Head(doc.history).type = "edit"
           /\ Head(doc.history).items[k].amount # doc.items[k].amount

---------------------------------------------------------------------------
EnqueueDeEstado(r) ==
    LET q == req[r]
        t == tareas'[Len(tareas')]
    IN /\ q.pc = "updEstado" /\ q.estado = "Preparado"
       /\ q.id \in DOMAIN pedidos /\ pedidos[q.id].user_id # 0
       /\ t.tipo = "estado" /\ t.user_id = pedidos[q.id].user_id
       /\ t.prev = userQueues[t.user_id] /\ userQueues'[t.user_id] = Len(tareas')
       /\ t.pedido_id = q.id

\* C25: actualizar-estado-pedido enqueues a task only in the step that stores
\* the status 'Preparado' in an order that carries a customer id, chained to
\* that customer; no step of the request writes a ledger; and on an order
\* without customer id the request stores the status, answers 200 and enqueues
\* nothing.
C25_EstadoYDeuda ==
    [][\A r \in Reqs :
          LET q == req[r] IN
          (q.op = "estado" /\ req'[r] # q) =>
              /\ clients_v2' = clients_v2
              /\ IF NuevaTarea THEN EnqueueDeEstado(r)
                 ELSE tareas' = tareas /\ userQueues' = userQueues
              /\ (q.pc = "updEstado" /\ q.id \in DOMAIN pedidos
                     /\ pedidos[q.id].user_id = 0) =>
                    /\ req'[r].pc = "done" /\ req'[r].res = 200
                    /\ pedidos'[q.id].estado = q.estado
                    /\ tareas' = tareas]_vars

\* An order without customer id has been set to 'Preparado' with answer 200
\* and no task of that order exists.
C25_Witness ==
    \E r \in Reqs :
        LET q == req[r] IN
        /\ q.op = "estado" /\ q.pc = "done" /\ q.res = 200 /\ q.estado = "Preparado"
        /\ q.id \in DOMAIN pedidos /\ pedidos[q.id].user_id = 0
        /\ pedidos[q.id].estado = "Preparado"
        /\ \A n \in DOMAIN tareas : tareas[n].pedido_id # q.id

---------------------------------------------------------------------------
\* C26: while every stock change is made by a recorded sale, the movement
\* history holds no 'ajuste db' record, whether or not a monitor pass runs at
\* the same time as the sale.
C26_SinAjusteSinDesvio ==
    \A k \in DOMAIN historial_stock : historial_stock[k].tipo_movimiento # "ajuste db"

---------------------------------------------------------------------------
\* C27: over the whole life of a customer's ledger at most one task stores a
\* new debt line for a given order id.
C27_UnaSolaCreacion ==
    \A a, b \in DOMAIN tareas :
        (tareas[a].creo /\ tareas[b].creo /\ tareas[a].user_id = tareas[b].user_id
            /\ tareas[a].pedido_id = tareas[b].pedido_id) => a = b

---------------------------------------------------------------------------
Podable(item) ==
    item.type = "debt" /\ item.date = "vieja" /\ item.amount - item.paid <= 0

NoPodable(item) == ~Podable(item)

SinMonto(item) == [id |-> item.id, type |-> item.type, paid |-> item.paid, date |-> item.date]

RECURSIVE EsSubsecuencia(_, _)
EsSubsecuencia(a, b) ==
    IF a = <<>> THEN TRUE
    ELSE IF b = <<>> THEN FALSE
    ELSE IF SinMonto(Head(a)) = SinMonto(Head(b)) THEN EsSubsecuencia(Tail(a), Tail(b))
    ELSE EsSubsecuencia(a, Tail(b))

\* C28: every item that a task's write leaves out of the ledger is a debt
\* dated before the three-month window with amount - paid <= 0: the items
\* that owe, are inside the window, are no debt or carry no valid date are all
\* in the written ledger, in their order, and an edit task leaves out nothing.
C28_SoloSePodaLoSaldado ==
    [][\A n \in DOMAIN tareas :
          LET t == tareas[n]
              pre == clients_v2[t.user_id].items
              post == clients_v2'[t.user_id].items
          IN (t.st = "write" /\ tareas'[n].st = "settled") =>
                /\ EsSubsecuencia(SelectSeq(pre, NoPodable), post)
                /\ t.tipo = "edit" => Len(post) = Len(pre)]_vars

\* A fulfilment has left one item out of a ledger that still holds a debt
\* dated before the window that owes.
C28_Witness ==
    \E n \in DOMAIN tareas :
        LET t == tareas[n] IN
        /\ t.tipo = "estado" /\ t.st = "settled" /\ t.quito = 1
        /\ \E k \in DOMAIN clients_v2[t.user_id].items :
              LET item == clients_v2[t.user_id].items[k] IN
              item.id = 2 /\ item.type = "debt" /\ item.date = "vieja"
                /\ item.amount - item.paid > 0

---------------------------------------------------------------------------
---------------------------------------------------------------------------
\* C30: after every write of the ledger by a fulfilment or edit task the
\* customer's history holds at most the cap of entries (500 in the code),
\* whatever the number of entries the task found.
C30_HistoryConTope ==
    [][\A n \in DOMAIN tareas :
          (tareas[n].st = "write" /\ tareas'[n].st = "settled") =>
              Len(clients_v2'[tareas[n].user_id].history) <= capHistory]_vars

---------------------------------------------------------------------------
SinRevisado(m) == [m EXCEPT !.revisado = FALSE]

\* C31: every step keeps every movement record at its place with all its
\* fields but revisado; revisado changes only in the step of a
\* historial-check request, only in the record with the id given, and only to
\* TRUE, and that step adds no record.
C31_SoloSeAgrega ==
    [][/\ Len(historial_stock') >= Len(historial_stock)
       /\ \A k \in DOMAIN historial_stock :
             /\ SinRevisado(historial_stock'[k]) = SinRevisado(historial_stock[k])
             /\ historial_stock'[k] # historial_stock[k] =>
                   /\ historial_stock'[k].revisado
                   /\ Len(historial_stock') = Len(historial_stock)
                   /\ \E r \in Reqs :
                         /\ req[r].op = "check" /\ req[r].pc = "updRevisado"
                         /\ req'[r].pc = "done" /\ req[r].id = k
                   /\ \A j \in DOMAIN historial_stock \ {k} :
                         historial_stock'[j] = historial_stock[j]]_vars

\* The second of three records, the first one written by the monitor, has
\* been acknowledged.
C31_Witness ==
    /\ Len(historial_stock) = 3
    /\ ~historial_stock[1].revisado /\ historial_stock[1].tipo_movimiento = "ajuste db"
    /\ historial_stock[2].revisado /\ ~historial_stock[3].revisado

\* C32: a failure of the ledger synchronisation never fails the parent: the
\* step of actualizar-pedido that looks the customer up answers 200 and
\* leaves the order rows alone whatever the lookup returned, the step of
\* actualizar-estado-pedido that enqueues answers 200 with the new status in
\* the row, and no step of a queued task, failing or not, with or without a
\* ledger row, changes an order row or a request or leaves the promise of
\* the customer rejected.
C32_FalloDeSyncNoFalla ==
    [][/\ \A r \in Reqs :
             /\ (req[r].op = "actualizar" /\ req[r].pc = "selInfo" /\ req'[r] # req[r]) =>
                   /\ req'[r].pc = "done" /\ req'[r].res = 200
                   /\ pedidos' = pedidos
             /\ (req[r].op = "estado" /\ req'[r] # req[r] /\ Len(tareas') > Len(tareas)) =>
                   /\ req'[r].pc = "done" /\ req'[r].res = 200
                   /\ pedidos'[req[r].id].estado = req[r].estado
       /\ \A n \in DOMAIN tareas :
             tareas'[n] # tareas[n] =>
                /\ pedidos' = pedidos /\ req' = req
                /\ tareas'[n].st # "rejected"]_vars

\* An edit whose lookup failed has answered 200 with its items in the order
\* row, and a task of the fulfilment has failed, the order still fulfilled.
C32_Witness ==
    /\ \E r \in Reqs :
          /\ req[r].op = "actualizar" /\ req[r].pc = "done" /\ req[r].errSync
          /\ req[r].res = 200 /\ pedidos[1].items = req[r].items
    /\ \E n \in DOMAIN tareas : tareas[n].fallo /\ tareas[n].tipo = "estado"
    /\ pedidos[1].estado = "Preparado"

---------------------------------------------------------------------------
\* C33: a run of actualizar-pedido whose order id names no row of pedidos
\* changes no stock, no snapshot row and no movement record in any of its
\* steps, and the answer it gives is 404.
C33_EdicionSinPedido ==
    [][\A r \in Reqs :
          (req[r].op = "actualizar" /\ req[r].id \notin DOMAIN pedidos /\ req'[r] # req[r]) =>
             /\ UNCHANGED <<productos, monitor_snapshot, historial_stock>>
             /\ (req'[r].pc = "done" => req'[r].res = 404)]_vars

---------------------------------------------------------------------------
\* C34: when a pass returns, with passes running one at a time, the value it
\* returns is the number of movement records appended since it began, whether
\* or not a datastore call of the pass has failed.
C34_RetornoEsLoRegistrado ==
    \A m \in Mons :
        mon[m].pc = "done" => mon[m].ret = Len(historial_stock) - mon[m].h0

---------------------------------------------------------------------------
\* C35: when a run of guardar-pedidos has answered an error, with requests
\* running one at a time, the stock of every product is what it was when the
\* run began (the initial stock plus the deltas of the records written before
\* the run) and the movement history holds no VENTA record written by the run.
C35_VentaFallidaSinRastro ==
    \A r \in Reqs :
        (req[r].op = "guardar" /\ req[r].pc = "done" /\ req[r].res >= 400) =>
            /\ \A p \in Prods : productos[p] = stock0[p] + SumaDeltas(p, req[r].h0)
            /\ \A k \in DOMAIN historial_stock :
                  k > req[r].h0 => historial_stock[k].tipo_movimiento # "VENTA"

---------------------------------------------------------------------------
\* C36: while nothing writes the stock, so that every product carries at most
\* the one change made before the passes began, the movement history holds at
\* most one 'ajuste db' record for each product, whether the passes run one
\* after another or overlap.
C36_UnAjustePorCambio ==
    \A p \in Prods :
        Cardinality({k \in DOMAIN historial_stock :
                        /\ historial_stock[k].producto_id = p
                        /\ historial_stock[k].tipo_movimiento = "ajuste db"}) <= 1

---------------------------------------------------------------------------
\* C37: the movement history holds, for each order and each product of its
\* items, at most one ELIMINAR_PEDIDO record, that is at most one restoring
\* write of the stock, however many eliminar-pedido requests are made for the
\* order and whatever the datastore answers.
C37_RestauraUnaVez ==
    \A id \in PedidoIds, p \in Prods :
        Cardinality({k \in DOMAIN historial_stock :
                        /\ historial_stock[k].tipo_movimiento = "ELIMINAR_PEDIDO"
                        /\ historial_stock[k].referencia_id = id
                        /\ historial_stock[k].producto_id = p}) <= 1

---------------------------------------------------------------------------
\* C38: once no request is under way and every queued task has settled, every
\* debt line of a fulfilled order carries the rounded total stored in the
\* order row, whether or not the requests for the order have overlapped.
C38_DeudaIgualAlPedido ==
    (/\ \A r \in Reqs : req[r].pc \in {"idle", "done"}
     /\ \A n \in DOMAIN tareas : tareas[n].st = "settled") =>
        \A id \in DOMAIN pedidos :
            LET u == pedidos[id].user_id IN
            (pedidos[id].estado = "Preparado" /\ u \in DOMAIN clients_v2) =>
                \A k \in LineasDe(clients_v2[u], id) :
                    clients_v2[u].items[k].type = "debt" =>
                        clients_v2[u].items[k].amount = Redondear(pedidos[id].total)

---------------------------------------------------------------------------
\* C39: every record of the movement history, written by registrarMovimiento
\* for a sale, an edit or a deletion or by the monitor for a drift, holds
\* stock_nuevo = stock_anterior + cantidad_cambio.
C39_MovimientoCuadra ==
    \A k \in DOMAIN historial_stock :
        historial_stock[k].stock_nuevo
            = historial_stock[k].stock_anterior + historial_stock[k].cantidad_cambio

\* The history holds a drift record, a sale and a restoration, each with a
\* delta that is not zero.
C39_Witness ==
    \A tipo \in {"ajuste db", "VENTA", "ELIMINAR_PEDIDO"} :
        \E k \in DOMAIN historial_stock :
            /\ historial_stock[k].tipo_movimiento = tipo
            /\ historial_stock[k].cantidad_cambio # 0

---------------------------------------------------------------------------
\* The rows of productos and of a snapshot table, in the order the datastore
\* returns them.
FilasProductos == [k \in 1..NumProds |-> [id |-> k, stock |-> productos[k]]]

FilasSnapshot(snap) ==
    LET ids == Filas(DOMAIN snap)
    IN [k \in DOMAIN ids |-> [id |-> ids[k], stock |-> snap[ids[k]]]]

\* What a loop has collected after reading up to from is the first from rows
\* of the table, each once.
Recogido(leidos, filas, from) ==
    /\ Len(leidos) = from /\ from <= Len(filas)
    /\ \A k \in DOMAIN leidos : leidos[k] = filas[k]

====
